---- MODULE Spec2Model ----
(***************************************************************************)
(* Geoverse tool views (resistivity, GPR, gravity, seismic, remote         *)
(* sensing, earthquake): synthetic generator, CSV ingestion, derived       *)
(* statistics and the remote interpretation call, as one state machine     *)
(* per mounted view.                                                       *)
(*                                                                         *)
(* Conventions.                                                            *)
(*  - A string is a sequence of one-character strings; '' is << >>.        *)
(*  - A JavaScript number is an integer in the fixed-point unit of its     *)
(*    field, or one of NaN, Infinity, NegInfinity.                         *)
(*  - Math.random() is a stream seeded per run: draw k of a run with seed  *)
(*    s is Random(s, k) / RandDen, a fraction in [0, 1).                   *)
(***************************************************************************)
EXTENDS Integers, Sequences, FiniteSets, TLC

(***************************************************************************)
(* JavaScript numbers and strings                                          *)
(***************************************************************************)

\* The three non-finite values of a JavaScript number, outside the finite range
\* used by the model; Infinity and NegInfinity keep their order and negation.
Infinity == 1000000000
NegInfinity == -Infinity
NaN == 2000000000

isNaN(v) == v = NaN
isFinite(v) == v \notin {NaN, Infinity, NegInfinity}

Abs(n) == IF n < 0 THEN -n ELSE n
Max2(a, b) == IF a >= b THEN a ELSE b
Min2(a, b) == IF a <= b THEN a ELSE b

DigitChars == <<"0", "1", "2", "3", "4", "5", "6", "7", "8", "9">>
IsDigit(c) == \E i \in 1..10 : DigitChars[i] = c
DigitVal(c) == (CHOOSE i \in 1..10 : DigitChars[i] = c) - 1
IsSpace(c) == c \in {" ", "\r", "\t"}

\* String.prototype.trim
RECURSIVE TrimLeft(_)
TrimLeft(s) == IF s /= << >> /\ IsSpace(Head(s)) THEN TrimLeft(Tail(s)) ELSE s
RECURSIVE TrimRight(_)
TrimRight(s) ==
  IF s /= << >> /\ IsSpace(s[Len(s)]) THEN TrimRight(SubSeq(s, 1, Len(s) - 1)) ELSE s
Trim(s) == TrimRight(TrimLeft(s))

\* String.prototype.split(sep) for a one-character separator: always at least
\* one part, the parts keep their order and their white space.
Split(s, sep) ==
  LET at == SelectSeq([i \in 1..Len(s) |-> i], LAMBDA i : s[i] = sep)
      cuts == <<0>> \o at \o <<Len(s) + 1>>
  IN [k \in 1..(Len(at) + 1) |-> SubSeq(s, cuts[k] + 1, cuts[k + 1] - 1)]

\* Array.prototype.join(sep) on strings; JoinRange joins parts[lo..hi]
RECURSIVE JoinRange(_, _, _, _)
JoinRange(parts, sep, lo, hi) ==
  IF lo = hi THEN parts[lo]
  ELSE JoinRange(parts, sep, lo, (lo + hi) \div 2) \o sep
       \o JoinRange(parts, sep, (lo + hi) \div 2 + 1, hi)
Join(parts, sep) == IF parts = << >> THEN << >> ELSE JoinRange(parts, sep, 1, Len(parts))

StartsWith(s, p) == Len(s) >= Len(p) /\ SubSeq(s, 1, Len(p)) = p

sInfinity == <<"I", "n", "f", "i", "n", "i", "t", "y">>
sNaN == <<"N", "a", "N">>

\* Every finite number is held as value * Scale, truncated to that unit.
Scale == 10 * 10
FracDigits == 2

Mul(a, b) == (a * b) \div Scale
Div(a, b) == (a * Scale) \div b
\* Math.floor, Math.ceil
Floor(v) == (v \div Scale) * Scale
Ceil(v) == -Floor(-v)
\* An integer of the program (a count, an index) as a number
Num(n) == n * Scale
\* The integer a whole number stands for (a loop bound, an array length)
Whole(v) == v \div Scale

RECURSIVE DigitsValue(_, _)
DigitsValue(s, acc) ==
  IF s = << >> THEN acc ELSE DigitsValue(Tail(s), acc * 10 + DigitVal(Head(s)))
AllDigits(s) == \A i \in 1..Len(s) : IsDigit(s[i])

\* The fraction digits of a literal as a count of units (digits past the unit
\* are dropped).
FracValue(s) ==
  LET d == SubSeq(s, 1, Min2(Len(s), FracDigits)) IN
  IF Len(d) = 0 THEN 0
  ELSE IF Len(d) = 1 THEN 10 * DigitsValue(d, 0)
  ELSE DigitsValue(d, 0)

\* StrUnsignedDecimalLiteral: 'Infinity', or digits with an optional fraction
\* ('12', '1.5', '.5', '5.'); anything else is NaN.
UnsignedNumber(t) ==
  IF t = sInfinity THEN Infinity
  ELSE LET p == Split(t, ".") IN
    IF Len(p) > 2 \/ ~AllDigits(p[1]) THEN NaN
    ELSE IF Len(p) = 1 THEN (IF p[1] = << >> THEN NaN ELSE Num(DigitsValue(p[1], 0)))
    ELSE IF ~AllDigits(p[2]) \/ (p[1] = << >> /\ p[2] = << >>) THEN NaN
    ELSE Num(DigitsValue(p[1], 0)) + FracValue(p[2])

\* Number(string): white space is trimmed, '' is 0, a signed decimal literal is
\* its value, a signed 'Infinity' is infinite, anything else is NaN.
Number(s) ==
  LET t == Trim(s) IN
  IF t = << >> THEN 0
  ELSE IF Head(t) \in {"-", "+"} THEN
    LET u == UnsignedNumber(Tail(t)) IN
    IF isNaN(u) THEN NaN ELSE IF Head(t) = "-" THEN -u ELSE u
  ELSE UnsignedNumber(t)

\* The longest prefix of s made of characters of cs
RECURSIVE TakeWhile(_, _)
TakeWhile(s, cs) ==
  IF s /= << >> /\ Head(s) \in cs THEN <<Head(s)>> \o TakeWhile(Tail(s), cs) ELSE << >>
DigitSet == {DigitChars[i] : i \in 1..10}

\* parseInt(string): an optional sign and the leading digits, NaN without any
parseInt(s) ==
  LET t == TrimLeft(s)
      neg == t /= << >> /\ Head(t) = "-"
      u == IF t /= << >> /\ Head(t) \in {"-", "+"} THEN Tail(t) ELSE t
      d == TakeWhile(u, DigitSet)
  IN IF d = << >> THEN NaN
     ELSE IF neg THEN -Num(DigitsValue(d, 0)) ELSE Num(DigitsValue(d, 0))

\* parseFloat(string): an optional sign and the longest leading decimal
\* literal, NaN without any digit
parseFloat(s) ==
  LET t == TrimLeft(s)
      neg == t /= << >> /\ Head(t) = "-"
      u == IF t /= << >> /\ Head(t) \in {"-", "+"} THEN Tail(t) ELSE t
      d == TakeWhile(u, DigitSet)
      r == SubSeq(u, Len(d) + 1, Len(u))
      f == IF r /= << >> /\ Head(r) = "." THEN TakeWhile(Tail(r), DigitSet) ELSE << >>
      v == Num(DigitsValue(d, 0)) + FracValue(f)
  IN IF StartsWith(u, sInfinity) THEN (IF neg THEN NegInfinity ELSE Infinity)
     ELSE IF d = << >> /\ f = << >> THEN NaN
     ELSE IF neg THEN -v ELSE v

\* a || b for numbers: 0 and NaN are falsy
OrElse(a, b) == IF isNaN(a) \/ a = 0 THEN b ELSE a

\* String(number), as in a template literal or join: the shortest decimal
\* literal of the value.
RECURSIVE NatToString(_)
NatToString(n) ==
  IF n < 10 THEN <<DigitChars[n + 1]>>
  ELSE Append(NatToString(n \div 10), DigitChars[(n % 10) + 1])
FracToString(f) ==
  IF f = 0 THEN << >>
  ELSE IF f % 10 = 0 THEN <<".", DigitChars[(f \div 10) + 1]>>
  ELSE <<".", DigitChars[(f \div 10) + 1], DigitChars[(f % 10) + 1]>>
NumberToString(v) ==
  IF isNaN(v) THEN sNaN
  ELSE IF v = Infinity THEN sInfinity
  ELSE IF v = NegInfinity THEN <<"-">> \o sInfinity
  ELSE LET a == Abs(v) IN
    (IF v < 0 THEN <<"-">> ELSE << >>) \o NatToString(a \div Scale) \o FracToString(a % Scale)

\* Number.prototype.toFixed(digits) followed by parseFloat: the value rounded
\* to 10^-digits, halves away from zero; exact from FracDigits digits on.
Pow10(d) == IF d = 0 THEN 1 ELSE IF d = 1 THEN 10 ELSE Scale
toFixed(v, digits) ==
  IF digits >= FracDigits THEN v
  ELSE LET step == Scale \div Pow10(digits)
           a == Abs(v)
           r == ((2 * a + step) \div (2 * step)) * step
       IN IF v < 0 THEN -r ELSE r

(***************************************************************************)
(* Math.sin, Math.cos, Math.exp on fixed-point numbers                     *)
(***************************************************************************)

\* pi in the unit of the model
PiS == 314

\* Math.sin by Bhaskara's rational approximation (error below 0.002),
\* Math.cos(x) as sin(x + pi/2).
SinHalf(x) == (16 * x * (PiS - x) * Scale) \div (5 * PiS * PiS - 4 * x * (PiS - x))
sin(v) ==
  LET x == v % (2 * PiS) IN
  IF x <= PiS THEN SinHalf(x) ELSE -SinHalf(x - PiS)
cos(v) == sin(v + PiS \div 2)

\* Math.exp(-u) for u >= 0: the (2,2) Pade approximant below 1/2, squaring above
ExpPade(u) ==
  Div(12 * Scale * Scale - 6 * Scale * u + u * u, 12 * Scale * Scale + 6 * Scale * u + u * u)
RECURSIVE ExpNeg(_)
ExpNeg(u) ==
  IF 2 * u <= Scale THEN ExpPade(u)
  ELSE LET h == ExpNeg(u \div 2) IN Mul(h, h)

(***************************************************************************)
(* Math.random                                                             *)
(***************************************************************************)

\* Seeds of the random stream, one per generator run
MaxSeed == 2
Seeds == 0..MaxSeed
RandDen == MaxSeed + 1
\* Draw number k (from 0) of the run seeded s, as a numerator over RandDen
Random(s, k) == (s + k + k \div RandDen) % RandDen
\* Math.random() * range, for draw k of the run seeded s
RandomTimes(s, k, range) == (Random(s, k) * range) \div RandDen

(***************************************************************************)
(* View state                                                              *)
(***************************************************************************)

VARIABLES
  tool,                  \* the mounted tool view
  locale,                \* the browser's locale (Date.prototype.toLocaleString)
  params,                \* the SurveyParameters fields (useState)
  data,                  \* the dataset fields (useState)
  isLoading, errorMessage, showResults, showExplanation,
  interpretationLoading, interpretationText, interpretationError,
  pending,               \* timers, file reads and requests in flight, oldest first
  lastStep               \* history: the handler or callback that ran last

vars == <<tool, locale, params, data, isLoading, errorMessage, showResults,
          showExplanation, interpretationLoading, interpretationText,
          interpretationError, pending, lastStep>>

Tools == {"resistivity", "gpr", "gravity", "seismic", "remoteSensing", "earthquake"}

\* A message string: '' is the message of kind "", every other kind is a
\* non-empty text; line and column are the values interpolated into it.
Msg(kind, line, column) == [kind |-> kind, line |-> line, column |-> column]
NoMsg == Msg("", 0, << >>)

Neg(v) ==
  IF isNaN(v) THEN NaN
  ELSE IF v = Infinity THEN NegInfinity ELSE IF v = NegInfinity THEN Infinity ELSE -v

\* (num / den) * v of IEEE doubles, num and den integers, den > 0
Scaled(v, num, den) ==
  IF isFinite(v) THEN (num * v) \div den
  ELSE IF isNaN(v) \/ num = 0 THEN NaN
  ELSE IF num > 0 THEN v ELSE Neg(v)

\* Comparisons of IEEE doubles: false when an operand is NaN
Lt(a, b) == ~isNaN(a) /\ ~isNaN(b) /\ a < b
Leq(a, b) == ~isNaN(a) /\ ~isNaN(b) /\ a <= b

\* a + b of IEEE doubles: Infinity + -Infinity is NaN
Add(a, b) ==
  IF isNaN(a) \/ isNaN(b) THEN NaN
  ELSE IF a = Infinity THEN (IF b = NegInfinity THEN NaN ELSE Infinity)
  ELSE IF a = NegInfinity THEN (IF b = Infinity THEN NaN ELSE NegInfinity)
  ELSE IF b \in {Infinity, NegInfinity} THEN b
  ELSE a + b

\* f.reduce((sum, v) => sum + v, 0)
SeqSum(f) ==
  LET RECURSIVE Go(_, _)
      Go(lo, hi) == IF lo > hi THEN 0
                    ELSE IF lo = hi THEN f[lo]
                    ELSE LET mid == (lo + hi) \div 2
                         IN Add(Go(lo, mid), Go(mid + 1, hi))
  IN Go(1, Len(f))

\* sum / count: 0 / 0 is NaN
Mean(f) ==
  IF Len(f) = 0 THEN NaN
  ELSE LET sum == SeqSum(f) IN IF isFinite(sum) THEN sum \div Len(f) ELSE sum

\* Math.min(...f) and Math.max(...f) of a non-empty array
SeqMin(f) ==
  LET RECURSIVE Go(_, _)
      Go(lo, hi) == IF lo = hi THEN f[lo]
                    ELSE LET mid == (lo + hi) \div 2
                         IN Min2(Go(lo, mid), Go(mid + 1, hi))
  IN Go(1, Len(f))
SeqMax(f) ==
  LET RECURSIVE Go(_, _)
      Go(lo, hi) == IF lo = hi THEN f[lo]
                    ELSE LET mid == (lo + hi) \div 2
                         IN Max2(Go(lo, mid), Go(mid + 1, hi))
  IN Go(1, Len(f))

\* Math.min(...f) and Math.max(...f) of an array that may hold NaN
MathMin(f) == IF \E i \in 1..Len(f) : isNaN(f[i]) THEN NaN ELSE SeqMin(f)
MathMax(f) == IF \E i \in 1..Len(f) : isNaN(f[i]) THEN NaN ELSE SeqMax(f)

\* [...zs].sort((a, b) => a - b)[k], k from 0: the least v with more than k
\* elements at or below it.
RECURSIVE KthSearch(_, _, _, _)
KthSearch(zs, k, lo, hi) ==
  IF lo >= hi THEN lo
  ELSE LET mid == lo + (hi - lo) \div 2
           below == Cardinality({i \in 1..Len(zs) : zs[i] <= mid})
       IN IF below > k THEN KthSearch(zs, k, lo, mid) ELSE KthSearch(zs, k, mid + 1, hi)
SortedAt(zs, k) == KthSearch(zs, k, SeqMin(zs), SeqMax(zs))

(***************************************************************************)
(* CSV files                                                               *)
(***************************************************************************)

Row(fields) == Join(fields, <<",">>)
FileText(lines) == Join(lines, <<"\n">>)

\* event.target.files?.[0]: nothing selected, or a file with a MIME type and
\* the text readAsText delivers.
NoFile == [selected |-> FALSE, type |-> "", text |-> << >>]
File(type, text) == [selected |-> TRUE, type |-> type, text |-> text]
Csv(lines) == File("text/csv", FileText(lines))

\* text.split('\n').filter(line => line.trim() !== '')
Lines(text) == SelectSeq(Split(text, "\n"), LAMBDA line : Trim(line) # << >>)

\* line.split(',').map(part => part.trim())
Parts(line) == LET raw == Split(line, ",") IN [i \in 1..Len(raw) |-> Trim(raw[i])]

\* lines.slice(0): no line left out
slice0(s) == s

\* lines.slice(1)
slice1(s) == IF Len(s) <= 1 THEN << >> ELSE SubSeq(s, 2, Len(s))


Parsed(rows) == [ok |-> TRUE, rows |-> rows, error |-> NoMsg]
Thrown(msg) == [ok |-> FALSE, rows |-> << >>, error |-> msg]

\* What the callback of lines.slice(1).map(...) does with one line: it throws
\* the message error, or returns row when error is NoMsg.
Returned(row) == [error |-> NoMsg, row |-> row]
Threw(msg) == [error |-> msg, row |-> << >>]

\* MapRows with a callback that returns nothing for a line it cannot read and
\* a filter that drops those lines
MapRowsSkipping(results) ==
  Parsed([k \in 1..Cardinality({i \in 1..Len(results) : results[i].error = NoMsg}) |->
            results[CHOOSE i \in 1..Len(results) :
                      /\ results[i].error = NoMsg
                      /\ Cardinality({j \in 1..i : results[j].error = NoMsg}) = k].row])

\* lines.slice(1).map(...) inside the try block, from what the callback does
\* with each line: the first throw ends the map.
MapRows(results) ==
  IF \A i \in 1..Len(results) : results[i].error = NoMsg
  THEN Parsed([i \in 1..Len(results) |-> results[i].row])
  ELSE Thrown(results[CHOOSE i \in 1..Len(results) :
                        /\ results[i].error # NoMsg
                        /\ \A j \in 1..(i - 1) : results[j].error = NoMsg].error)

\* parts.map(Number)
Numbers(parts) == [k \in 1..Len(parts) |-> Number(parts[k])]

\* The callback of the x,y,z tools with y stored as written in both modes
XYZRowKeepingY(parts, n, index, negateY) ==
  IF Len(parts) # 3 THEN Threw(Msg("columns", index + 2, << >>))
  ELSE IF \E k \in 1..3 : isNaN(n[k]) THEN Threw(Msg("nonNumeric", index + 2, << >>))
  ELSE Returned([x |-> n[1], y |-> n[2], z |-> n[3]])

\* The callback of the x,y,z tools on the parts of the line at index (from 0),
\* n being the numbers of the parts.
XYZRow(parts, n, index, negateY) ==
  IF Len(parts) # 3 THEN Threw(Msg("columns", index + 2, << >>))
  ELSE IF \E k \in 1..3 : isNaN(n[k]) THEN Threw(Msg("nonNumeric", index + 2, << >>))
  ELSE Returned([x |-> n[1], y |-> IF negateY THEN Neg(n[2]) ELSE n[2], z |-> n[3]])

XYZRows(rows, negateY) ==
  [i \in 1..Len(rows) |-> XYZRow(Parts(rows[i]), Numbers(Parts(rows[i])), i - 1, negateY)]

\* The parsing of the x,y,z tools: the header line is skipped unread.
ParseXYZ(text, negateY) == MapRows(XYZRows(slice1(Lines(text)), negateY))

(***************************************************************************)
(* Resistivity tomography (src/geoverse/src/app/about/page.tsx)            *)
(***************************************************************************)

ResistivityInitialParams ==
  [technique |-> "wenner", numElectrodes |-> Num(20), electrodeSpacing |-> Num(1)]

ResistivityNoData ==
  [pseudosectionData |-> << >>, resistivityModelData |-> << >>, convergenceData |-> << >>]

\* The (i, n) pairs of the pseudosection loops, in loop order
RECURSIVE PseudosectionPairs(_, _)
PseudosectionPairs(i, N) ==
  IF i >= N - 1 THEN << >>
  ELSE [n \in 1..((N - 1 - i) \div 2) |-> <<i, n>>] \o PseudosectionPairs(i + 1, N)

\* newPseudosectionData of simulateInversion; draw k of the run feeds point k.
PseudosectionData(p, seed) ==
  LET N == Whole(p.numElectrodes)
      s == p.electrodeSpacing
      pairs == PseudosectionPairs(0, N)
      Point(k) ==
        LET i == pairs[k][1]
            n == pairs[k][2]
            x2 == (i + n + (i + n + n)) * s       \* twice x
            d2 == n * s                           \* twice depth
            anomalous == /\ 2 * x2 > N * s
                         /\ 2 * x2 < N * s * 3
                         /\ 5 * d2 < 2 * N * s
        IN [x |-> x2 \div 2, y |-> d2 \div 2,
            z |-> IF anomalous THEN Num(500) + RandomTimes(seed, k - 1, Num(200))
                  ELSE Num(80) + RandomTimes(seed, k - 1, Num(40))]
  IN [k \in 1..Len(pairs) |-> Point(k)]

gridYCount == 10

\* ResistivityModelData with the background resistivity at every point
ResistivityModelDataUniform(p, seed, drawn) ==
  [k \in 1..(Whole(p.numElectrodes) * 2 * gridYCount) |->
     [x |-> (((k - 1) \div gridYCount) * p.electrodeSpacing) \div 2,
      y |-> -((((k - 1) % gridYCount) * p.electrodeSpacing) \div 2),
      z |-> Num(90) + RandomTimes(seed, drawn + k - 1, Num(20))]]

\* newResistivityModelData of simulateInversion, x-major, stored with y negated.
ResistivityModelData(p, seed, drawn) ==
  LET N == Whole(p.numElectrodes)
      s == p.electrodeSpacing
      Point(k) ==
        LET i == (k - 1) \div gridYCount
            j == (k - 1) % gridYCount
            anomalous == /\ 3 * i * s > 2 * N * s
                         /\ 3 * i * s < 4 * N * s
                         /\ j * s > 4 * s
                         /\ j * s < 10 * s
        IN [x |-> (i * s) \div 2, y |-> -((j * s) \div 2),
            z |-> IF anomalous THEN Num(600) + RandomTimes(seed, drawn + k - 1, Num(100))
                  ELSE Num(90) + RandomTimes(seed, drawn + k - 1, Num(20))]
  IN [k \in 1..(N * 2 * gridYCount) |-> Point(k)]

convergenceIterations == 15

\* newConvergenceData: rmsError = initial * exp(-rate * i) + random * noise
ConvergenceData(initial, rate, noise, seed, drawn) ==
  [k \in 1..convergenceIterations |->
     [iteration |-> Num(k),
      rmsError |-> Mul(initial, ExpNeg(rate * (k - 1)))
                   + RandomTimes(seed, drawn + k - 1, noise)]]

simulateInversionResult(p, seed) ==
  LET ps == PseudosectionData(p, seed)
      md == ResistivityModelData(p, seed, Len(ps))
  IN [pseudosectionData |-> ps,
      resistivityModelData |-> md,
      convergenceData |-> ConvergenceData(20, 20, 1, seed, Len(ps) + Len(md))]

NoRequest(kind) == [outcome |-> kind, prompt |-> << >>]
Request(prompt) == [outcome |-> "request", prompt |-> prompt]

\* n.toFixed(1) of a number that may be infinite
Fixed1(v) == IF isFinite(v) THEN toFixed(v, 1) ELSE v

\* interpretResults selecting the points above its threshold
interpretResultsPromptAbove(d) ==
  LET model == d.resistivityModelData
      zValues == [i \in 1..Len(model) |-> model[i].z]
  IN IF Len(model) = 0 THEN NoRequest("noData")
     ELSE
       LET anomalyThreshold == SortedAt(zValues, (Len(zValues) * 8) \div 10)
           anomalyPoints == SelectSeq(model, LAMBDA q : q.z > anomalyThreshold)
           backgroundPoints == SelectSeq(model, LAMBDA q : q.z <= anomalyThreshold)
           xs == [i \in 1..Len(anomalyPoints) |-> anomalyPoints[i].x]
           ys == [i \in 1..Len(anomalyPoints) |-> anomalyPoints[i].y]
       IN IF Len(anomalyPoints) = 0 THEN NoRequest("noAnomaly")
          ELSE Request(<<Fixed1(SeqMin(xs)), Fixed1(SeqMax(xs)),
                         Fixed1(Abs(SeqMax(ys))), Fixed1(Abs(SeqMin(ys))),
                         Fixed1(Mean([i \in 1..Len(anomalyPoints) |-> anomalyPoints[i].z])),
                         Fixed1(Mean([i \in 1..Len(backgroundPoints) |-> backgroundPoints[i].z]))>>)

\* interpretResults up to the fetch: the branch taken and the statistics
\* interpolated into the prompt.
interpretResultsPrompt(d) ==
  LET model == d.resistivityModelData
      zValues == [i \in 1..Len(model) |-> model[i].z]
  IN IF Len(model) = 0 THEN NoRequest("noData")
     ELSE
       LET anomalyThreshold == SortedAt(zValues, (Len(zValues) * 8) \div 10)
           anomalyPoints == SelectSeq(model, LAMBDA q : q.z >= anomalyThreshold)
           backgroundPoints == SelectSeq(model, LAMBDA q : q.z < anomalyThreshold)
           xs == [i \in 1..Len(anomalyPoints) |-> anomalyPoints[i].x]
           ys == [i \in 1..Len(anomalyPoints) |-> anomalyPoints[i].y]
       IN IF Len(anomalyPoints) = 0 THEN NoRequest("noAnomaly")
          ELSE Request(<<Fixed1(SeqMin(xs)), Fixed1(SeqMax(xs)),
                         Fixed1(Abs(SeqMax(ys))), Fixed1(Abs(SeqMin(ys))),
                         Fixed1(Mean([i \in 1..Len(anomalyPoints) |-> anomalyPoints[i].z])),
                         IF Len(backgroundPoints) > 0
                         THEN Fixed1(Mean([i \in 1..Len(backgroundPoints) |-> backgroundPoints[i].z]))
                         ELSE Fixed1(SeqMin(zValues))>>)

\* onChange of the parameter inputs
setNumElectrodesInput(value) == Max2(Num(4), OrElse(parseInt(value), 0))
setElectrodeSpacingInput(value) == Max2(10, OrElse(parseFloat(value), 10))

\* The outcome of reader.onload: the branch taken, the datasets and the
\* parameters it leaves, and the message it sets.
Loaded(d, p) == [outcome |-> "ok", data |-> d, params |-> p, error |-> NoMsg]
LoadedNothing(kind, d, p) ==
  [outcome |-> "empty", data |-> d, params |-> p, error |-> Msg(kind, 0, << >>)]
LoadFailed(msg, d, p) == [outcome |-> "error", data |-> d, params |-> p, error |-> msg]

\* ResistivityOnLoad without setConvergenceData([])
ResistivityOnLoadKeepingConvergence(parsed, dataType, d, p) ==
  IF ~parsed.ok THEN LoadFailed(parsed.error, d, p)
  ELSE IF Len(parsed.rows) = 0 THEN LoadedNothing("emptyOrHeaders", d, p)
  ELSE Loaded([pseudosectionData |-> IF dataType = "pseudosection" THEN parsed.rows
                                     ELSE d.pseudosectionData,
               resistivityModelData |-> IF dataType = "model" THEN parsed.rows
                                        ELSE d.resistivityModelData,
               convergenceData |-> d.convergenceData], p)

\* reader.onload of handleFileUpload(event, dataType) over the datasets d,
\* parsed being the outcome of its parsing
ResistivityOnLoad(parsed, dataType, d, p) ==
  IF ~parsed.ok THEN LoadFailed(parsed.error, d, p)
  ELSE IF Len(parsed.rows) = 0 THEN LoadedNothing("emptyOrHeaders", d, p)
  ELSE Loaded([pseudosectionData |-> IF dataType = "pseudosection" THEN parsed.rows
                                     ELSE d.pseudosectionData,
               resistivityModelData |-> IF dataType = "model" THEN parsed.rows
                                        ELSE d.resistivityModelData,
               convergenceData |-> << >>], p)

(***************************************************************************)
(* Ground penetrating radar (src/unnamed/part_003)                         *)
(***************************************************************************)

GPRInitialParams ==
  [numTraces |-> Num(50), traceSpacing |-> 10, pointsPerTrace |-> Num(100),
   maxDepthOrTWTT |-> Num(10)]

GPRNoData == [gprData |-> << >>]

\* simulatedData of simulateGPRData, trace-major; each point takes two draws.
simulateGPRDataResult(p, seed) ==
  LET N == Whole(p.numTraces)
      M == Whole(p.pointsPerTrace)
      horizontalExtent == N * p.traceSpacing
      Point(k) ==
        LET i == (k - 1) \div M
            j == (k - 1) % M
            currentX == i * p.traceSpacing
            currentY == (j * p.maxDepthOrTWTT) \div M
            wave == Mul(sin(currentY * 5), Num(20)) + RandomTimes(seed, 2 * (k - 1), Num(10))
                    + Mul(cos(currentX * 2), Num(15))
            anomalous == /\ 10 * currentX > 3 * horizontalExtent
                         /\ 10 * currentX < 7 * horizontalExtent
                         /\ 10 * currentY > 4 * p.maxDepthOrTWTT
                         /\ 10 * currentY < 6 * p.maxDepthOrTWTT
        IN [x |-> currentX, y |-> currentY,
            z |-> wave + (IF anomalous
                          THEN Num(50) + RandomTimes(seed, 2 * (k - 1) + 1, Num(30))
                          ELSE Num(20) + RandomTimes(seed, 2 * (k - 1) + 1, Num(5)))]
  IN [gprData |-> [k \in 1..(N * M) |-> Point(k)]]

\* reader.onload of handleFileUpload: the catch block empties gprData.
GPROnLoad(parsed, d, p) ==
  IF ~parsed.ok THEN LoadFailed(parsed.error, GPRNoData, p)
  ELSE IF Len(parsed.rows) = 0 THEN LoadedNothing("emptyOrHeaders", d, p)
  ELSE Loaded([gprData |-> parsed.rows], p)

\* interpretGPRResults up to the fetch
interpretGPRResultsPrompt(d) ==
  LET gprData == d.gprData
      zValues == [i \in 1..Len(gprData) |-> gprData[i].z]
  IN IF Len(gprData) = 0 THEN NoRequest("noData")
     ELSE
       LET highAmplitudeThreshold == SortedAt(zValues, (Len(zValues) * 9) \div 10)
           anomalyPoints == SelectSeq(gprData, LAMBDA q : q.z >= highAmplitudeThreshold)
           backgroundPoints == SelectSeq(gprData, LAMBDA q : q.z < highAmplitudeThreshold)
           xs == [i \in 1..Len(anomalyPoints) |-> anomalyPoints[i].x]
           ys == [i \in 1..Len(anomalyPoints) |-> anomalyPoints[i].y]
       IN IF Len(anomalyPoints) = 0 THEN NoRequest("noAnomaly")
          ELSE Request(<<Fixed1(SeqMin(xs)), Fixed1(SeqMax(xs)),
                         Fixed1(SeqMin(ys)), Fixed1(SeqMax(ys)),
                         Fixed1(Mean([i \in 1..Len(anomalyPoints) |-> anomalyPoints[i].z])),
                         IF Len(backgroundPoints) > 0
                         THEN Fixed1(Mean([i \in 1..Len(backgroundPoints) |-> backgroundPoints[i].z]))
                         ELSE Fixed1(SeqMin(zValues))>>)

setNumTracesInput(value) == Max2(Num(10), OrElse(parseInt(value), Num(10)))
setTraceSpacingInput(value) == Max2(1, OrElse(parseFloat(value), 1))
setMaxDepthOrTWTTInput(value) == Max2(Num(1), OrElse(parseFloat(value), Num(1)))

(***************************************************************************)
(* CSV files with named columns                                            *)
(***************************************************************************)

Range(f) == {f[i] : i \in 1..Len(f)}

sTime == <<"t", "i", "m", "e">>
sDepth == <<"d", "e", "p", "t", "h">>

\* lines[0].split(',').map(h => h.trim()), of a file with a line
Headers(lines) == IF Len(lines) = 0 THEN << >> ELSE Parts(lines[1])

\* The callback of the tools with named columns on the parts of the line at
\* index (from 0): the columns whose header is in numeric are parsed with
\* Number, from the left; in the row object a later column of the same header
\* overwrites an earlier one.
HeaderRowValues(headers, values, index, numeric) ==
  IF \E i \in 1..Len(headers) : headers[i] \in numeric /\ isNaN(values[i])
  THEN Threw(Msg("nonNumeric", index + 2,
                 headers[CHOOSE i \in 1..Len(headers) :
                           /\ headers[i] \in numeric /\ isNaN(values[i])
                           /\ \A j \in 1..(i - 1) :
                                ~(headers[j] \in numeric /\ isNaN(values[j]))]))
  ELSE Returned([h \in Range(headers) |->
                   values[CHOOSE i \in 1..Len(headers) :
                            /\ headers[i] = h
                            /\ \A j \in (i + 1)..Len(headers) : headers[j] # h]])

HeaderRow(headers, parts, index, numeric) ==
  IF Len(parts) # Len(headers) THEN Threw(Msg("columns", index + 2, << >>))
  ELSE HeaderRowValues(headers,
                       [i \in 1..Len(parts) |->
                          IF headers[i] \in numeric THEN Number(parts[i]) ELSE parts[i]],
                       index, numeric)

\* lines.slice(1).map(...) under the headers of lines[0]
HeaderRows(headers, rows, numeric) ==
  [i \in 1..Len(rows) |-> HeaderRow(headers, Parts(rows[i]), i - 1, numeric)]

\* The try block of reader.onload up to parsedData: a file without a line
\* throws, then a file whose headers lack one of required, then the first
\* row that fails.
ParseNamed(lines, headers, required, numeric) ==
  IF Len(lines) = 0 THEN Thrown(Msg("empty", 0, << >>))
  ELSE IF \E k \in 1..Len(required) : required[k] \notin Range(headers)
  THEN Thrown(Msg("missingHeaders", 0,
                  Join(SelectSeq(required, LAMBDA h : h \notin Range(headers)),
                       <<",", " ">>)))
  ELSE MapRows(HeaderRows(headers, slice1(lines), numeric))

(***************************************************************************)
(* Seismic interpretation (src/unnamed/part_005)                           *)
(***************************************************************************)

sVelocity == <<"v", "e", "l", "o", "c", "i", "t", "y">>
sTrace == <<"t", "r", "a", "c", "e">>
TraceKey(i) == sTrace \o NatToString(i)

SeismicInitialParams ==
  [numTraces |-> Num(50), samplingInterval |-> Num(4), velocity1 |-> Num(1500),
   velocity2 |-> Num(2500), depthOfInterface |-> Num(100)]

SeismicNoData ==
  [seismicTracesData |-> << >>, velocityModelData |-> << >>, convergenceData |-> << >>]

\* (2 * depth / velocity) * 1000, in ms
TwoWayTime(depth, velocity) == (20000 * depth) \div (velocity \div 10)

twtInterface(p) == TwoWayTime(p.depthOfInterface, p.velocity1)
twtMax(p) == twtInterface(p) + TwoWayTime(Num(100), p.velocity2)
\* numTimeSamples with Math.floor for Math.ceil
numTimeSamplesFloor(p) == Whole(Floor(Div(twtMax(p), p.samplingInterval)))
\* const numTimeSamples = Math.ceil(twtMax / samplingInterval)
numTimeSamples(p) == Whole(Ceil(Div(twtMax(p), p.samplingInterval)))

freq == 30

\* (1 - 2 a) exp(-a) * 100 with a = pi^2 freq^2 t_norm^2, t_norm = dt / 1000
Ricker(dt) ==
  LET a == ((((PiS * PiS * freq * freq) \div 1000000) * dt * dt) \div 1000000)
  IN (Scale - 2 * a) * ExpNeg(a)

\* The amplitude of trace i (from 0) at sample t (from 0); the draws of a
\* sample are numbered by its place in the loops.
SeismicAmplitude(p, seed, t, i) ==
  LET N == Whole(p.numTraces)
      time == t * p.samplingInterval
      k == 2 * (t * N + i)
      peakTime == twtInterface(p) + RandomTimes(seed, k, Num(5)) - 250
      reflection == IF time >= twtInterface(p) - Num(20) /\ time <= twtInterface(p) + Num(20)
                    THEN Ricker(time - peakTime) ELSE 0
  IN reflection + RandomTimes(seed, k + 1, Num(5)) - 250

SeismicTraces(p, seed) ==
  LET N == Whole(p.numTraces)
      keys == {sTime} \cup {TraceKey(i) : i \in 1..N}
      Index(key) == CHOOSE i \in 1..N : TraceKey(i) = key
  IN [t \in 1..numTimeSamples(p) |->
        [key \in keys |-> IF key = sTime THEN (t - 1) * p.samplingInterval
                          ELSE SeismicAmplitude(p, seed, t - 1, Index(key) - 1)]]

\* for (let d = 0; d <= maxSimulatedDepth; d += 10)
VelocityModel(p, seed, drawn) ==
  LET maxSimulatedDepth == p.depthOfInterface + Num(100)
  IN [k \in 1..(Whole(maxSimulatedDepth) \div 10 + 1) |->
        [key \in {sDepth, sVelocity} |->
           IF key = sDepth THEN Num(10 * (k - 1))
           ELSE (IF Num(10 * (k - 1)) <= p.depthOfInterface THEN p.velocity1 ELSE p.velocity2)
                + RandomTimes(seed, drawn + k - 1, Num(20)) - Num(10)]]

simulateSeismicDataResult(p, seed) ==
  LET traces == SeismicTraces(p, seed)
      drawn == 2 * Len(traces) * Whole(p.numTraces)
      model == VelocityModel(p, seed, drawn)
  IN [seismicTracesData |-> traces,
      velocityModelData |-> model,
      convergenceData |-> ConvergenceData(5, 10, 0, seed, drawn + Len(model))]

\* reader.onload of handleFileUpload(event, dataType), parsed being the
\* outcome of its parsing: every column is numeric, and the columns the
\* dataType requires are looked for after the rows are parsed.
SeismicOnLoad(parsed, headers, dataType, d, p) ==
  IF ~parsed.ok THEN LoadFailed(parsed.error, d, p)
  ELSE IF Len(parsed.rows) = 0 THEN LoadedNothing("headersOnly", d, p)
  ELSE IF dataType = "traces"
  THEN IF sTime \notin Range(headers)
       THEN LoadFailed(Msg("missingHeaders", 0, sTime), d, p)
       ELSE Loaded([d EXCEPT !.seismicTracesData = parsed.rows,
                             !.convergenceData = << >>],
                   [p EXCEPT !.numTraces =
                      Num(Len(SelectSeq(headers, LAMBDA key : StartsWith(key, sTrace))))])
  ELSE IF sDepth \notin Range(headers) \/ sVelocity \notin Range(headers)
       THEN LoadFailed(Msg("missingHeaders", 0, sDepth), d, p)
       ELSE Loaded([d EXCEPT !.velocityModelData = parsed.rows,
                             !.convergenceData = << >>], p)

Fixed0(v) == IF isFinite(v) THEN toFixed(v, 0) ELSE v

\* The keys of an object as an array; the order plays no part in what is
\* computed from it.
RECURSIVE Keys(_)
Keys(S) ==
  IF S = {} THEN << >>
  ELSE <<CHOOSE k \in S : TRUE>> \o Keys(S \ {CHOOSE k \in S : TRUE})

\* traceKeys.forEach(key => { currentAvgAmplitude += Math.abs(row[key]); })
SumAbs(row, keys) == SeqSum([i \in 1..Len(keys) |-> Abs(row[keys[i]])])

\* The traces sentences of the prompt of interpretSeismicResults
SeismicTracesSummary(traces) ==
  LET traceKeys == Keys({key \in DOMAIN traces[1] : StartsWith(key, sTrace)})
      numAvailableTraces == Len(traceKeys)
      avgAmplitude(row) ==
        IF numAvailableTraces = 0 THEN NaN
        ELSE LET sum == SumAbs(row, traceKeys)
             IN IF isFinite(sum) THEN sum \div numAvailableTraces ELSE sum
      avgs == [t \in 1..Len(traces) |-> avgAmplitude(traces[t])]
      maxAvgAmplitude == IF numAvailableTraces = 0 THEN 0 ELSE Max2(0, SeqMax(avgs))
      reflectionTime ==
        IF maxAvgAmplitude = 0 THEN 0
        ELSE traces[CHOOSE t \in 1..Len(traces) :
                      /\ avgs[t] = maxAvgAmplitude
                      /\ \A u \in 1..(t - 1) : avgs[u] # maxAvgAmplitude][sTime]
  IN <<IF Lt(0, reflectionTime) THEN Fixed0(reflectionTime) ELSE 0,
       Fixed0(OrElse(traces[Len(traces)][sTime], 0)), numAvailableTraces>>

\* The velocity model sentences of the prompt
VelocityModelSummary(model) ==
  LET velocities == [i \in 1..Len(model) |-> model[i][sVelocity]]
      jumps == {i \in 2..Len(model) :
                  Lt(Scaled(velocities[i - 1], 2, 10),
                     Abs(Add(velocities[i], Neg(velocities[i - 1]))))}
  IN <<Fixed0(SeqMin(velocities)), Fixed0(SeqMax(velocities)),
       Fixed0(model[Len(model)][sDepth]),
       IF jumps = {} THEN << >>
       ELSE <<Fixed0(model[CHOOSE i \in jumps : \A j \in jumps : i <= j][sDepth])>> >>

\* interpretSeismicResults without its test of the two lengths
interpretSeismicResultsPromptUnchecked(d) ==
  Request(<<IF Len(d.seismicTracesData) > 0
            THEN SeismicTracesSummary(d.seismicTracesData) ELSE << >>,
            IF Len(d.velocityModelData) > 0
            THEN VelocityModelSummary(d.velocityModelData) ELSE << >> >>)

\* interpretSeismicResults up to the fetch
interpretSeismicResultsPrompt(d) ==
  IF Len(d.seismicTracesData) = 0 /\ Len(d.velocityModelData) = 0 THEN NoRequest("noData")
  ELSE Request(<<IF Len(d.seismicTracesData) > 0
                 THEN SeismicTracesSummary(d.seismicTracesData) ELSE << >>,
                 IF Len(d.velocityModelData) > 0
                 THEN VelocityModelSummary(d.velocityModelData) ELSE << >> >>)

setSamplingIntervalInput(value) == Max2(Num(1), OrElse(parseFloat(value), Num(1)))
setVelocityInput(value) == Max2(Num(100), OrElse(parseFloat(value), Num(100)))
setDepthOfInterfaceInput(value) == Max2(Num(10), OrElse(parseFloat(value), Num(10)))

(***************************************************************************)
(* Remote sensing analysis (src/unnamed/part_002)                          *)
(***************************************************************************)

sLatitude == <<"l", "a", "t", "i", "t", "u", "d", "e">>
sLongitude == <<"l", "o", "n", "g", "i", "t", "u", "d", "e">>
sBand1 == <<"b", "a", "n", "d", "1">>
sBand2 == <<"b", "a", "n", "d", "2">>
sBand3 == <<"b", "a", "n", "d", "3">>
sValue == <<"v", "a", "l", "u", "e">>
sVegetation == <<"V", "e", "g", "e", "t", "a", "t", "i", "o", "n">>
sWater == <<"W", "a", "t", "e", "r">>

RSInitialParams == [numPoints |-> Num(50), minBandValue |-> 0, maxBandValue |-> Num(255)]
RSNoData == [rsData |-> << >>]

RSExpectedHeaders == <<sLatitude, sLongitude, sBand1, sBand2, sBand3, sValue>>
RSNumericHeaders == {sLatitude, sLongitude, sBand1, sBand2, sBand3}

\* Math.random() * (90 - (-90)) + (-90) and Math.random() * (180 - (-180)) + (-180)
getRandomLatitude(seed, k) == RandomTimes(seed, k, Num(180)) - Num(90)
getRandomLongitude(seed, k) == RandomTimes(seed, k, Num(360)) - Num(180)

\* parseFloat((cluster + (Math.random() - 0.5) * clusterRadius / 10).toFixed(4))
Clustered(cluster, seed, k) == toFixed(cluster + RandomTimes(seed, k, Num(5)) - 250, 4)

\* Math.floor(Math.random() * (maxBandValue - minBandValue + 1) + minBandValue)
BandValue(p, seed, k) ==
  Floor(RandomTimes(seed, k, p.maxBandValue - p.minBandValue + Num(1)) + p.minBandValue)

\* tempRSData of simulateRSData: two draws for the cluster, six for a point
simulateRSDataResult(p, seed) ==
  LET clusterLat == getRandomLatitude(seed, 0)
      clusterLon == getRandomLongitude(seed, 1)
      Point(i) ==
        LET k == 2 + 6 * i IN
        [h \in Range(RSExpectedHeaders) |->
           CASE h = sLatitude -> Clustered(clusterLat, seed, k)
             [] h = sLongitude -> Clustered(clusterLon, seed, k + 1)
             [] h = sBand1 -> BandValue(p, seed, k + 2)
             [] h = sBand2 -> BandValue(p, seed, k + 3)
             [] h = sBand3 -> BandValue(p, seed, k + 4)
             [] h = sValue -> IF 2 * Random(seed, k + 5) > RandDen THEN sVegetation ELSE sWater]
  IN [rsData |-> [i \in 1..Whole(p.numPoints) |-> Point(i - 1)]]

\* reader.onload of the tools that require headers, parsed being the outcome
\* of its parsing
RequiredHeadersOnLoad(parsed, field, d, p) ==
  IF ~parsed.ok THEN LoadFailed(parsed.error, d, p)
  ELSE IF Len(parsed.rows) = 0 THEN LoadedNothing("headersOnly", d, p)
  ELSE Loaded([d EXCEPT ![field] = parsed.rows], p)

\* (values.reduce((sum, val) => sum + val, 0) / numPoints).toFixed(1)
Average1(rows, h) == Fixed1(Mean([i \in 1..Len(rows) |-> rows[i][h]]))

\* interpretRSResults up to the fetch
interpretRSResultsPrompt(d) ==
  IF Len(d.rsData) = 0 THEN NoRequest("noData")
  ELSE Request(<<Len(d.rsData), Average1(d.rsData, sBand1), Average1(d.rsData, sBand2),
                 Average1(d.rsData, sBand3),
                 {d.rsData[i][sValue] : i \in 1..Len(d.rsData)}>>)

setNumPointsInput(value) == Max2(Num(10), OrElse(parseInt(value), Num(10)))
setMinBandValueInput(value) == Max2(0, OrElse(parseInt(value), 0))
setMaxBandValueInput(value, minBandValue) ==
  Max2(minBandValue + Num(1), OrElse(parseInt(value), minBandValue + Num(1)))

(***************************************************************************)
(* Earthquake monitoring (src/unnamed/part_007)                            *)
(***************************************************************************)

sMagnitude == <<"m", "a", "g", "n", "i", "t", "u", "d", "e">>

EarthquakeInitialParams ==
  [numEarthquakes |-> Num(50), minMagnitude |-> Num(2), maxMagnitude |-> Num(6),
   minDepth |-> Num(5), maxDepth |-> Num(100)]
EarthquakeNoData == [earthquakeData |-> << >>]

EarthquakeExpectedHeaders == <<sLatitude, sLongitude, sMagnitude, sDepth, sTime>>
EarthquakeNumericHeaders == {sLatitude, sLongitude, sMagnitude, sDepth}

\* new Date(Date.now() - Math.random() * 30 days).toLocaleString(): the day
\* of the event, written as the locale writes a date and a time; en-US puts
\* a comma between them, sv-SE a space.
Locales == {"en-US", "sv-SE"}
toLocaleString(day, loc) ==
  IF loc = "en-US" THEN NatToString(day) \o <<"/", "1", ",", " ", "1", "P", "M">>
  ELSE NatToString(day) \o <<"-", "1", " ", "1", "3">>

\* new Date(time).getTime(): the day of a string one of the locales writes,
\* NaN for another string.
getTime(time) ==
  LET digits == TakeWhile(time, DigitSet)
      rest == SubSeq(time, Len(digits) + 1, Len(time))
  IN IF Len(digits) > 0 /\ rest \in {<<"/", "1", ",", " ", "1", "P", "M">>, <<"-", "1", " ", "1", "3">>}
     THEN Num(DigitsValue(digits, 0)) ELSE NaN

\* Between1 without toFixed(1)
Between1Unrounded(min, max, seed, k) == RandomTimes(seed, k, max - min) + min

\* parseFloat((Math.random() * (max - min) + min).toFixed(1))
Between1(min, max, seed, k) == toFixed(RandomTimes(seed, k, max - min) + min, 1)

\* tempEarthquakeData of simulateEarthquakeData: two draws for the cluster,
\* five for an event
simulateEarthquakeDataResult(p, seed, loc) ==
  LET clusterLat == getRandomLatitude(seed, 0)
      clusterLon == getRandomLongitude(seed, 1)
      Event(i) ==
        LET k == 2 + 5 * i IN
        [h \in Range(EarthquakeExpectedHeaders) |->
           CASE h = sMagnitude -> Between1(p.minMagnitude, p.maxMagnitude, seed, k)
             [] h = sDepth -> Between1(p.minDepth, p.maxDepth, seed, k + 1)
             [] h = sLatitude -> Clustered(clusterLat, seed, k + 2)
             [] h = sLongitude -> Clustered(clusterLon, seed, k + 3)
             [] h = sTime -> toLocaleString(30 - Whole(RandomTimes(seed, k + 4, Num(30))), loc)]
  IN [earthquakeData |-> [i \in 1..Whole(p.numEarthquakes) |-> Event(i - 1)]]

\* sortedByTime[0]: the first of the latest events; with a time that is no
\* date the comparator is inconsistent and the order is the engine's choice.
MostRecentEvents(rows) ==
  LET times == [i \in 1..Len(rows) |-> getTime(rows[i][sTime])]
  IN IF \E i \in 1..Len(rows) : isNaN(times[i]) THEN 1..Len(rows)
     ELSE {CHOOSE i \in 1..Len(rows) :
             /\ times[i] = SeqMax(times)
             /\ \A j \in 1..(i - 1) : times[j] # times[i]}

\* interpretEarthquakeResults up to the fetch
interpretEarthquakeResultsPrompts(d) ==
  LET rows == d.earthquakeData
      Column(h) == [i \in 1..Len(rows) |-> rows[i][h]]
  IN IF Len(rows) = 0 THEN {NoRequest("noData")}
     ELSE {Request(<<Len(rows),
                     Fixed1(SeqMin(Column(sMagnitude))), Fixed1(SeqMax(Column(sMagnitude))),
                     Average1(rows, sMagnitude),
                     Fixed1(SeqMin(Column(sDepth))), Fixed1(SeqMax(Column(sDepth))),
                     Average1(rows, sDepth),
                     Mean(Column(sLatitude)), Mean(Column(sLongitude)),
                     rows[i][sTime], rows[i][sMagnitude], rows[i][sDepth]>>)
           : i \in MostRecentEvents(rows)}

setNumEarthquakesInput(value) == Max2(Num(1), OrElse(parseInt(value), Num(1)))
setMagnitudeInput(value) == OrElse(parseFloat(value), 0)
setDepthInput(value) == Max2(0, OrElse(parseFloat(value), 0))

(***************************************************************************)
(* Gravity anomalies (src/unnamed/part_004)                                *)
(***************************************************************************)

GravityInitialParams ==
  [stationSpacing |-> Num(5), averageElevation |-> Num(100), crustalDensity |-> 267,
   anomalyMagnitude |-> Num(20), anomalyCenterRatio |-> 50, anomalyWidthRatio |-> 20]

GravityNoData ==
  [observedGravityData |-> << >>, freeAirAnomalyData |-> << >>, bouguerAnomalyData |-> << >>]

numStations == 50
theoreticalGravityBase == Num(980000)

\* freeAirGradient * elevation and bouguerConstant * crustalDensity * elevation
freeAirCorrection(elevation) == Scaled(elevation, 3086, 10000)
bouguerCorrection(crustalDensity, elevation) ==
  Scaled(Scaled(elevation, crustalDensity, Scale), 419, 10000)

\* One station of simulateGravityData: three draws, for the elevation, the
\* observed gravity and the terrain correction.
GravityStation(p, seed, i) ==
  LET totalSurveyLength == numStations * p.stationSpacing
      anomalyCenter == Mul(totalSurveyLength, p.anomalyCenterRatio)
      anomalyEffectiveWidth == Mul(totalSurveyLength, p.anomalyWidthRatio)
      station == i * p.stationSpacing
      elevation == p.averageElevation + sin(Num(i) \div 5) * 5
                   + RandomTimes(seed, 3 * i, Num(2))
      distanceToAnomaly == Abs(station - anomalyCenter)
      ratio == (2 * Scale * distanceToAnomaly) \div anomalyEffectiveWidth
      observedGravity ==
        theoreticalGravityBase + RandomTimes(seed, 3 * i + 1, Num(10))
        + (IF distanceToAnomaly < anomalyEffectiveWidth
           THEN Mul(p.anomalyMagnitude, ExpNeg(Mul(ratio, ratio) \div 2))
           ELSE 0)
        + (elevation - p.averageElevation) \div 10
      freeAirAnomaly == observedGravity + freeAirCorrection(elevation) - theoreticalGravityBase
      terrainCorrection == RandomTimes(seed, 3 * i + 2, 50) - 25
  IN [station |-> station,
      observed |-> observedGravity,
      freeAir |-> freeAirAnomaly,
      bouguer |-> freeAirAnomaly - bouguerCorrection(p.crustalDensity, elevation)
                  + terrainCorrection]

simulateGravityDataResult(p, seed) ==
  LET st == [k \in 1..numStations |-> GravityStation(p, seed, k - 1)] IN
  [observedGravityData |-> [k \in 1..numStations |-> [station |-> st[k].station, value |-> st[k].observed]],
   freeAirAnomalyData |-> [k \in 1..numStations |-> [station |-> st[k].station, value |-> st[k].freeAir]],
   bouguerAnomalyData |-> [k \in 1..numStations |-> [station |-> st[k].station, value |-> st[k].bouguer]]]

\* GravitySeries with the Bouguer points pushed under the elevation of the
\* row instead of its station
GravitySeriesByElevation(rows, crustalDensity) ==
  LET freeAir(r) == Add(Add(r.z, freeAirCorrection(r.y)), -theoreticalGravityBase)
      bouguer(r) == Add(freeAir(r), Neg(bouguerCorrection(crustalDensity, r.y)))
  IN [observedGravityData |-> [k \in 1..Len(rows) |-> [station |-> rows[k].x, value |-> rows[k].z]],
      freeAirAnomalyData |-> [k \in 1..Len(rows) |-> [station |-> rows[k].x, value |-> freeAir(rows[k])]],
      bouguerAnomalyData |-> [k \in 1..Len(rows) |-> [station |-> rows[k].y, value |-> bouguer(rows[k])]]]

\* parsedData.forEach of reader.onload: the three series of the rows, with
\* the crustalDensity of the render that started the read.
GravitySeries(rows, crustalDensity) ==
  LET freeAir(r) == Add(Add(r.z, freeAirCorrection(r.y)), -theoreticalGravityBase)
      bouguer(r) == Add(freeAir(r), Neg(bouguerCorrection(crustalDensity, r.y)))
  IN [observedGravityData |-> [k \in 1..Len(rows) |-> [station |-> rows[k].x, value |-> rows[k].z]],
      freeAirAnomalyData |-> [k \in 1..Len(rows) |-> [station |-> rows[k].x, value |-> freeAir(rows[k])]],
      bouguerAnomalyData |-> [k \in 1..Len(rows) |-> [station |-> rows[k].x, value |-> bouguer(rows[k])]]]

\* reader.onload of handleFileUpload; the columns are station, elevation and
\* observedGravity, parsed as the x,y,z tools parse theirs.
GravityOnLoad(parsed, d, p, crustalDensity) ==
  IF ~parsed.ok THEN LoadFailed(parsed.error, d, p)
  ELSE IF Len(parsed.rows) = 0 THEN LoadedNothing("emptyOrHeaders", d, p)
  ELSE Loaded(GravitySeries(parsed.rows, crustalDensity), p)

\* The first element of pts with the value v, as the forEach with a strict
\* comparison finds it; station 0 when no element passes the comparison.
FirstWith(pts, v, never) ==
  IF v = never \/ isNaN(v) THEN 0
  ELSE pts[CHOOSE i \in 1..Len(pts) :
             /\ pts[i].value = v
             /\ \A j \in 1..(i - 1) : pts[j].value # v].station

\* interpretGravityResults up to the fetch
interpretGravityResultsPrompt(d) ==
  LET pts == d.bouguerAnomalyData
      anomalyValues == [i \in 1..Len(pts) |-> pts[i].value]
  IN IF Len(pts) = 0 THEN NoRequest("noData")
     ELSE
       LET minAnomaly == MathMin(anomalyValues)
           maxAnomaly == MathMax(anomalyValues)
           avgAnomaly == Mean(anomalyValues)
           highThreshold == Add(avgAnomaly, Scaled(Add(maxAnomaly, Neg(avgAnomaly)), 3, 10))
           lowThreshold == Add(avgAnomaly, Neg(Scaled(Add(avgAnomaly, Neg(minAnomaly)), 3, 10)))
           highAnomalies == SelectSeq(pts, LAMBDA q : Leq(highThreshold, q.value))
           lowAnomalies == SelectSeq(pts, LAMBDA q : Leq(q.value, lowThreshold))
           highValues == [i \in 1..Len(highAnomalies) |-> highAnomalies[i].value]
           lowValues == [i \in 1..Len(lowAnomalies) |-> lowAnomalies[i].value]
           peakValue == SeqMax(highValues)
           troughValue == SeqMin(lowValues)
       IN Request(<<minAnomaly, maxAnomaly, avgAnomaly,
                    IF Len(highAnomalies) > 0
                    THEN <<peakValue, Fixed1(FirstWith(highAnomalies, peakValue, NegInfinity))>>
                    ELSE << >>,
                    IF Len(lowAnomalies) > 0
                    THEN <<troughValue, Fixed1(FirstWith(lowAnomalies, troughValue, Infinity))>>
                    ELSE << >> >>)

setStationSpacingInput(value) == Max2(Num(1), OrElse(parseFloat(value), Num(1)))
setAverageElevationInput(value) == OrElse(parseFloat(value), 0)
setCrustalDensityInput(value) == Max2(Num(1), OrElse(parseFloat(value), Num(1)))
setAnomalyMagnitudeInput(value) == OrElse(parseFloat(value), 0)
setAnomalyRatioInput(value) == Min2(Num(1), Max2(0, OrElse(parseFloat(value), 0)))

(***************************************************************************)
(* Dispatch on the mounted tool                                            *)
(***************************************************************************)

InitialParams(t) ==
  CASE t = "resistivity" -> ResistivityInitialParams
    [] t = "gpr" -> GPRInitialParams
    [] t = "gravity" -> GravityInitialParams
    [] t = "seismic" -> SeismicInitialParams
    [] t = "remoteSensing" -> RSInitialParams
    [] t = "earthquake" -> EarthquakeInitialParams

NoData(t) ==
  CASE t = "resistivity" -> ResistivityNoData
    [] t = "gpr" -> GPRNoData
    [] t = "gravity" -> GravityNoData
    [] t = "seismic" -> SeismicNoData
    [] t = "remoteSensing" -> RSNoData
    [] t = "earthquake" -> EarthquakeNoData

\* The datasets a run of the simulate timer publishes
Generated(t, p, seed, loc) ==
  CASE t = "resistivity" -> simulateInversionResult(p, seed)
    [] t = "gpr" -> simulateGPRDataResult(p, seed)
    [] t = "gravity" -> simulateGravityDataResult(p, seed)
    [] t = "seismic" -> simulateSeismicDataResult(p, seed)
    [] t = "remoteSensing" -> simulateRSDataResult(p, seed)
    [] t = "earthquake" -> simulateEarthquakeDataResult(p, seed, loc)

\* The dataType arguments the file inputs pass
DataTypes(t) ==
  CASE t = "resistivity" -> {"pseudosection", "model"}
    [] t = "seismic" -> {"traces", "velocity_model"}
    [] OTHER -> {"data"}

\* The datasets after the synchronous part of an accepted upload
AtUploadStart(t, d) == IF t = "gpr" THEN GPRNoData ELSE d

\* The state values the reader.onload closure reads
NoCapture == [captured |-> << >>]
ReadClosure(t, p) ==
  IF t = "gravity" THEN [crustalDensity |-> p.crustalDensity] ELSE NoCapture

\* The datasets after the synchronous part of a simulate click
AtSimulateStart(t, d) == IF t = "gpr" THEN GPRNoData ELSE d

\* reader.onload of the tool over the text of the file
OnLoad(t, text, dataType, d, p, closure) ==
  CASE t = "resistivity" ->
         ResistivityOnLoad(ParseXYZ(text, dataType = "model"), dataType, d, p)
    [] t = "gpr" -> GPROnLoad(ParseXYZ(text, FALSE), d, p)
    [] t = "gravity" -> GravityOnLoad(ParseXYZ(text, FALSE), d, p, closure.crustalDensity)
    [] t = "seismic" ->
         SeismicOnLoad(ParseNamed(Lines(text), Headers(Lines(text)), << >>,
                                  Range(Headers(Lines(text)))),
                       Headers(Lines(text)), dataType, d, p)
    [] t = "remoteSensing" ->
         RequiredHeadersOnLoad(ParseNamed(Lines(text), Headers(Lines(text)),
                                          RSExpectedHeaders, RSNumericHeaders),
                               "rsData", d, p)
    [] t = "earthquake" ->
         RequiredHeadersOnLoad(ParseNamed(Lines(text), Headers(Lines(text)),
                                          EarthquakeExpectedHeaders,
                                          EarthquakeNumericHeaders),
                               "earthquakeData", d, p)

\* The outcomes of the interpret handler up to its fetch
PromptsOf(t, d) ==
  CASE t = "resistivity" -> {interpretResultsPrompt(d)}
    [] t = "gpr" -> {interpretGPRResultsPrompt(d)}
    [] t = "gravity" -> {interpretGravityResultsPrompt(d)}
    [] t = "seismic" -> {interpretSeismicResultsPrompt(d)}
    [] t = "remoteSensing" -> {interpretRSResultsPrompt(d)}
    [] t = "earthquake" -> interpretEarthquakeResultsPrompts(d)

\* onChange of the input of a parameter field
SetParam(t, p, field, value) ==
  CASE t = "resistivity" ->
         (CASE field = "technique" -> [p EXCEPT !.technique = value[1]]
            [] field = "numElectrodes" -> [p EXCEPT !.numElectrodes = setNumElectrodesInput(value)]
            [] field = "electrodeSpacing" ->
                 [p EXCEPT !.electrodeSpacing = setElectrodeSpacingInput(value)])
    [] t = "gpr" ->
         (CASE field = "numTraces" -> [p EXCEPT !.numTraces = setNumTracesInput(value)]
            [] field = "traceSpacing" -> [p EXCEPT !.traceSpacing = setTraceSpacingInput(value)]
            [] field = "maxDepthOrTWTT" ->
                 [p EXCEPT !.maxDepthOrTWTT = setMaxDepthOrTWTTInput(value)])
    [] t = "gravity" ->
         (CASE field = "stationSpacing" ->
                 [p EXCEPT !.stationSpacing = setStationSpacingInput(value)]
            [] field = "averageElevation" ->
                 [p EXCEPT !.averageElevation = setAverageElevationInput(value)]
            [] field = "crustalDensity" ->
                 [p EXCEPT !.crustalDensity = setCrustalDensityInput(value)]
            [] field = "anomalyMagnitude" ->
                 [p EXCEPT !.anomalyMagnitude = setAnomalyMagnitudeInput(value)]
            [] field = "anomalyCenterRatio" ->
                 [p EXCEPT !.anomalyCenterRatio = setAnomalyRatioInput(value)]
            [] field = "anomalyWidthRatio" ->
                 [p EXCEPT !.anomalyWidthRatio = setAnomalyRatioInput(value)])
    [] t = "seismic" ->
         (CASE field = "numTraces" -> [p EXCEPT !.numTraces = setNumTracesInput(value)]
            [] field = "samplingInterval" ->
                 [p EXCEPT !.samplingInterval = setSamplingIntervalInput(value)]
            [] field = "velocity1" -> [p EXCEPT !.velocity1 = setVelocityInput(value)]
            [] field = "velocity2" -> [p EXCEPT !.velocity2 = setVelocityInput(value)]
            [] field = "depthOfInterface" ->
                 [p EXCEPT !.depthOfInterface = setDepthOfInterfaceInput(value)])
    [] t = "remoteSensing" ->
         (CASE field = "numPoints" -> [p EXCEPT !.numPoints = setNumPointsInput(value)]
            [] field = "minBandValue" -> [p EXCEPT !.minBandValue = setMinBandValueInput(value)]
            [] field = "maxBandValue" ->
                 [p EXCEPT !.maxBandValue = setMaxBandValueInput(value, p.minBandValue)])
    [] t = "earthquake" ->
         (CASE field = "numEarthquakes" ->
                 [p EXCEPT !.numEarthquakes = setNumEarthquakesInput(value)]
            [] field = "minMagnitude" -> [p EXCEPT !.minMagnitude = setMagnitudeInput(value)]
            [] field = "maxMagnitude" -> [p EXCEPT !.maxMagnitude = setMagnitudeInput(value)]
            [] field = "minDepth" -> [p EXCEPT !.minDepth = setDepthInput(value)]
            [] field = "maxDepth" -> [p EXCEPT !.maxDepth = setDepthInput(value)])

\* disabled={interpretationLoading || <dataset>.length === 0}
InterpretDatasetEmpty(t, d) ==
  CASE t = "resistivity" -> Len(d.resistivityModelData) = 0
    [] t = "gpr" -> Len(d.gprData) = 0
    [] t = "gravity" -> Len(d.bouguerAnomalyData) = 0
    [] t = "seismic" -> Len(d.seismicTracesData) = 0 /\ Len(d.velocityModelData) = 0
    [] t = "remoteSensing" -> Len(d.rsData) = 0
    [] t = "earthquake" -> Len(d.earthquakeData) = 0

\* The tools whose useEffect clears the interpretation when a parameter or
\* a dataset changes
EffectTools == {"gravity", "seismic", "remoteSensing", "earthquake"}

(***************************************************************************)
(* The view as a state machine                                             *)
(***************************************************************************)

MaxPending == 2

NoText == << >>
\* The text of the response to the request that carried prompt
TextFor(prompt) == <<"text", prompt>>

Op(kind, p, text, dataType, prompt) ==
  [kind |-> kind, p |-> p, text |-> text, dataType |-> dataType, prompt |-> prompt]

Step(op, outcome, dataType, text, p, seed) ==
  [op |-> op, outcome |-> outcome, dataType |-> dataType, text |-> text,
   p |-> p, seed |-> seed]

Remove(s, i) == SubSeq(s, 1, i - 1) \o SubSeq(s, i + 1, Len(s))
OfKind(kind) == {i \in 1..Len(pending) : pending[i].kind = kind}

Init ==
  /\ tool \in Tools
  /\ locale \in IF tool = "earthquake" THEN Locales ELSE {"en-US"}
  /\ params = InitialParams(tool)
  /\ data = NoData(tool)
  /\ isLoading = FALSE
  /\ errorMessage = NoMsg
  /\ showResults = FALSE
  /\ showExplanation = FALSE
  /\ interpretationLoading = FALSE
  /\ interpretationText = NoText
  /\ interpretationError = NoMsg
  /\ pending = << >>
  /\ lastStep = Step("mount", "", "", << >>, InitialParams(tool), 0)

\* A render that runs no effect
AfterRenderNoEffect(depsChanged, text, error) == <<text, error>>

\* The useEffect of the tools in EffectTools, run after a render in which a
\* dependency changed: the interpretation is cleared whatever the step set.
AfterRender(depsChanged, text, error) ==
  IF tool \in EffectTools /\ depsChanged THEN <<NoText, NoMsg>> ELSE <<text, error>>

\* A simulate button that leaves the results on display
SimulateOverResults ==
  /\ ~isLoading
  /\ Len(pending) < MaxPending
  /\ isLoading' = TRUE
  /\ errorMessage' = NoMsg
  /\ interpretationText' = NoText
  /\ interpretationError' = NoMsg
  /\ data' = AtSimulateStart(tool, data)
  /\ pending' = Append(pending, Op("timer", params, << >>, "", << >>))
  /\ lastStep' = Step("simulate", "", "", << >>, params, 0)
  /\ UNCHANGED <<tool, locale, params, showExplanation, interpretationLoading, showResults>>

\* The simulate button: onClick of the button with disabled={isLoading}
Simulate ==
  /\ ~isLoading
  /\ Len(pending) < MaxPending
  /\ isLoading' = TRUE
  /\ errorMessage' = NoMsg
  /\ showResults' = FALSE
  /\ interpretationText' = NoText
  /\ interpretationError' = NoMsg
  /\ data' = AtSimulateStart(tool, data)
  /\ pending' = Append(pending, Op("timer", params, << >>, "", << >>))
  /\ lastStep' = Step("simulate", "", "", << >>, params, 0)
  /\ UNCHANGED <<tool, locale, params, showExplanation, interpretationLoading>>

\* The setTimeout callback of the oldest simulate click, over the parameters
\* of the render of that click
SimulateTimeout(seeds) ==
  \E i \in OfKind("timer") : \E seed \in seeds :
    /\ \A j \in OfKind("timer") : i <= j
    /\ data' = Generated(tool, pending[i].p, seed, locale)
    /\ showResults' = TRUE
    /\ isLoading' = FALSE
    /\ interpretationText' = AfterRender(TRUE, interpretationText, interpretationError)[1]
    /\ interpretationError' = AfterRender(TRUE, interpretationText, interpretationError)[2]
    /\ pending' = Remove(pending, i)
    /\ lastStep' = Step("timer", "ok", "", << >>, pending[i].p, seed)
    /\ UNCHANGED <<tool, locale, params, errorMessage, showExplanation,
                   interpretationLoading>>

\* onChange of a file input that tests the file after the fields are set
HandleFileUploadTestingLate(uploads) ==
  \E upload \in uploads :
    LET file == upload[1]
        dataType == upload[2]
    IN
    IF ~file.selected \/ file.type # "text/csv"
    THEN /\ errorMessage' = Msg(IF ~file.selected THEN "noFile" ELSE "notCsv", 0, << >>)
         /\ interpretationText' = NoText
         /\ interpretationError' = NoMsg
         /\ showResults' = FALSE
         /\ data' = AtUploadStart(tool, data)
         /\ lastStep' = Step("upload", "rejected", dataType, file.text, params, 0)
         /\ UNCHANGED <<tool, locale, params, isLoading, showExplanation,
                        interpretationLoading, pending>>
    ELSE /\ Len(pending) < MaxPending
         /\ isLoading' = TRUE
         /\ errorMessage' = NoMsg
         /\ interpretationText' = NoText
         /\ interpretationError' = NoMsg
         /\ showResults' = FALSE
         /\ data' = AtUploadStart(tool, data)
         /\ pending' = Append(pending, Op("read", ReadClosure(tool, params), file.text,
                                       dataType, << >>))
         /\ lastStep' = Step("upload", "reading", dataType, file.text, params, 0)
         /\ UNCHANGED <<tool, locale, params, showExplanation, interpretationLoading>>

\* onChange of a file input
HandleFileUpload(uploads) ==
  \E upload \in uploads :
    LET file == upload[1]
        dataType == upload[2]
    IN
    IF ~file.selected \/ file.type # "text/csv"
    THEN /\ errorMessage' = Msg(IF ~file.selected THEN "noFile" ELSE "notCsv", 0, << >>)
         /\ lastStep' = Step("upload", "rejected", dataType, file.text, params, 0)
         /\ UNCHANGED <<tool, locale, params, data, isLoading, showResults,
                        showExplanation, interpretationLoading, interpretationText,
                        interpretationError, pending>>
    ELSE /\ Len(pending) < MaxPending
         /\ isLoading' = TRUE
         /\ errorMessage' = NoMsg
         /\ interpretationText' = NoText
         /\ interpretationError' = NoMsg
         /\ showResults' = FALSE
         /\ data' = AtUploadStart(tool, data)
         /\ pending' = Append(pending, Op("read", ReadClosure(tool, params), file.text,
                                       dataType, << >>))
         /\ lastStep' = Step("upload", "reading", dataType, file.text, params, 0)
         /\ UNCHANGED <<tool, locale, params, showExplanation, interpretationLoading>>

\* reader.onload of a read in flight
ReaderOnLoad ==
  \E i \in OfKind("read") :
  \E r \in {OnLoad(tool, pending[i].text, pending[i].dataType, data, params,
                   pending[i].p)} :
    LET interp == AfterRender(r.outcome = "ok" \/ r.data # data \/ r.params # params,
                              interpretationText, interpretationError)
    IN /\ data' = r.data
       /\ params' = r.params
       /\ errorMessage' = IF r.outcome = "ok" THEN errorMessage ELSE r.error
       /\ showResults' = CASE r.outcome = "ok" -> TRUE
                           [] r.outcome = "error" -> FALSE
                           [] OTHER -> showResults
       /\ isLoading' = FALSE
       /\ interpretationText' = interp[1]
       /\ interpretationError' = interp[2]
       /\ pending' = Remove(pending, i)
       /\ lastStep' = Step("load", r.outcome, pending[i].dataType, pending[i].text,
                           r.params, 0)
       /\ UNCHANGED <<tool, locale, showExplanation, interpretationLoading>>

\* A reader.onerror that leaves isLoading as it is
ReaderOnErrorStillLoading ==
  \E i \in OfKind("read") :
    /\ errorMessage' = Msg("readFailed", 0, << >>)
    /\ pending' = Remove(pending, i)
    /\ lastStep' = Step("readError", "error", pending[i].dataType, pending[i].text,
                        params, 0)
    /\ UNCHANGED <<tool, locale, params, data, showResults, showExplanation, isLoading,
                   interpretationLoading, interpretationText, interpretationError>>

\* reader.onerror of a read in flight
ReaderOnError ==
  \E i \in OfKind("read") :
    /\ errorMessage' = Msg("readFailed", 0, << >>)
    /\ isLoading' = FALSE
    /\ pending' = Remove(pending, i)
    /\ lastStep' = Step("readError", "error", pending[i].dataType, pending[i].text,
                        params, 0)
    /\ UNCHANGED <<tool, locale, params, data, showResults, showExplanation,
                   interpretationLoading, interpretationText, interpretationError>>

\* The body of the interpret handler up to its first await
InterpretHandler ==
  \E r \in PromptsOf(tool, data) :
  /\ interpretationText' = NoText
  /\ IF r.outcome = "request"
     THEN /\ Len(pending) < MaxPending
          /\ interpretationLoading' = TRUE
          /\ interpretationError' = NoMsg
          /\ pending' = Append(pending, Op("fetch", NoCapture, << >>, "", r.prompt))
     ELSE /\ interpretationLoading' = FALSE
          /\ interpretationError' = Msg(r.outcome, 0, << >>)
          /\ pending' = pending
  /\ lastStep' = Step("interpret", r.outcome, "", << >>, params, 0)
  /\ UNCHANGED <<tool, locale, params, data, isLoading, errorMessage, showResults,
                 showExplanation>>

\* The interpret button, rendered with the results and
\* disabled={interpretationLoading || <dataset>.length === 0}
Interpret ==
  /\ showResults
  /\ ~interpretationLoading
  /\ ~InterpretDatasetEmpty(tool, data)
  /\ InterpretHandler

\* What the awaited fetch and response.json() deliver: a response with a
\* candidate text, a response without one, a rejection
Responses == {"text", "malformed", "failed"}

\* A continuation whose failure branches leave interpretationLoading as it is
InterpretSettledStillLoading(responses) ==
  \E i \in OfKind("fetch") : \E response \in responses :
    /\ interpretationText' = IF response = "text" THEN TextFor(pending[i].prompt)
                             ELSE interpretationText
    /\ interpretationError' = IF response = "text" THEN interpretationError
                              ELSE Msg(response, 0, << >>)
    /\ interpretationLoading' = (response # "text" /\ interpretationLoading)
    /\ pending' = Remove(pending, i)
    /\ lastStep' = Step("response", response, "", << >>, params, 0)
    /\ UNCHANGED <<tool, locale, params, data, isLoading, errorMessage, showResults,
                   showExplanation>>

\* The continuation of the interpret handler after its awaits
InterpretSettled(responses) ==
  \E i \in OfKind("fetch") : \E response \in responses :
    /\ interpretationText' = IF response = "text" THEN TextFor(pending[i].prompt)
                             ELSE interpretationText
    /\ interpretationError' = IF response = "text" THEN interpretationError
                              ELSE Msg(response, 0, << >>)
    /\ interpretationLoading' = FALSE
    /\ pending' = Remove(pending, i)
    /\ lastStep' = Step("response", response, "", << >>, params, 0)
    /\ UNCHANGED <<tool, locale, params, data, isLoading, errorMessage, showResults,
                   showExplanation>>

\* A reset button that leaves the parameters and the explanation as they are
ResetApplicationKeepingInputs ==
  /\ data' = NoData(tool)
  /\ isLoading' = FALSE
  /\ errorMessage' = NoMsg
  /\ showResults' = FALSE
  /\ interpretationLoading' = FALSE
  /\ interpretationText' = NoText
  /\ interpretationError' = NoMsg
  /\ lastStep' = Step("reset", "", "", << >>, InitialParams(tool), 0)
  /\ UNCHANGED <<tool, locale, pending, params, showExplanation>>

\* The reset button
ResetApplication ==
  /\ params' = InitialParams(tool)
  /\ data' = NoData(tool)
  /\ isLoading' = FALSE
  /\ errorMessage' = NoMsg
  /\ showResults' = FALSE
  /\ interpretationLoading' = FALSE
  /\ interpretationText' = NoText
  /\ interpretationError' = NoMsg
  /\ showExplanation' = FALSE
  /\ lastStep' = Step("reset", "", "", << >>, InitialParams(tool), 0)
  /\ UNCHANGED <<tool, locale, pending>>

\* onChange of a parameter input: the field and the text typed
SetParameter(inputs) ==
  \E input \in inputs : \E p \in {SetParam(tool, params, input[1], input[2])} :
    LET interp == AfterRender(p # params, interpretationText, interpretationError)
    IN /\ params' = p
       /\ interpretationText' = interp[1]
       /\ interpretationError' = interp[2]
       /\ lastStep' = Step("edit", input[1], "", input[2], p, 0)
       /\ UNCHANGED <<tool, locale, data, isLoading, errorMessage, showResults,
                      showExplanation, interpretationLoading, pending>>

\* The explanation button of the placeholder shown when !showResults && !isLoading
OpenExplanation ==
  /\ ~showResults /\ ~isLoading /\ ~showExplanation
  /\ showExplanation' = TRUE
  /\ lastStep' = Step("explain", "open", "", << >>, params, 0)
  /\ UNCHANGED <<tool, locale, params, data, isLoading, errorMessage, showResults,
                 interpretationLoading, interpretationText, interpretationError, pending>>

\* The close button of the explanation modal
CloseExplanation ==
  /\ showExplanation
  /\ showExplanation' = FALSE
  /\ lastStep' = Step("explain", "close", "", << >>, params, 0)
  /\ UNCHANGED <<tool, locale, params, data, isLoading, errorMessage, showResults,
                 interpretationLoading, interpretationText, interpretationError, pending>>

(***************************************************************************)
(* Inputs                                                                  *)
(***************************************************************************)

sHeaderXYZ == <<"x", ",", "y", ",", "z">>
sBad == <<"b", "a", "d">>
sComma == <<",">>
XYZLine(x, y, z) == Row(<<x, y, z>>)

XYZValid == Csv(<<sHeaderXYZ, XYZLine(<<"0">>, <<"1">>, <<"1", "0">>),
                  XYZLine(<<"1">>, <<"2">>, <<"2", "0">>)>>)
XYZMalformed == Csv(<<sHeaderXYZ, XYZLine(<<"0">>, <<"1">>, sBad)>>)

TracesValid == Csv(<<Join(<<sTime, TraceKey(1), TraceKey(2)>>, sComma),
                     Row(<<<<"0">>, <<"1">>, <<"2">>>>),
                     Row(<<<<"4">>, <<"9">>, <<"3">>>>)>>)
VelocityMalformed == Csv(<<Join(<<sDepth, sVelocity>>, sComma), Row(<<<<"0">>, sBad>>)>>)

RSValid ==
  Csv(<<Join(RSExpectedHeaders, sComma),
        Row(<<<<"1">>, <<"2">>, <<"3">>, <<"4">>, <<"5">>, sWater>>)>>)
RSMalformed ==
  Csv(<<Join(RSExpectedHeaders, sComma),
        Row(<<<<"1">>, <<"2">>, sBad, <<"4">>, <<"5">>, sWater>>)>>)
EarthquakeValid ==
  Csv(<<Join(EarthquakeExpectedHeaders, sComma),
        Row(<<<<"1">>, <<"2">>, <<"3">>, <<"4">>, toLocaleString(5, "sv-SE")>>)>>)
EarthquakeMalformed ==
  Csv(<<Join(<<sLatitude, sLongitude, sMagnitude, sDepth>>, sComma),
        Row(<<<<"1">>, <<"2">>, <<"3">>, <<"4">>>>)>>)

\* The view with its operations overlapping: a file and a dataType offered
\* to the file inputs, a text typed into a parameter input, the draws of a
\* run, the outcomes of a request
UiUploads ==
  CASE tool = "resistivity" -> { <<XYZValid, "model">>, <<XYZMalformed, "pseudosection">> }
    [] tool \in {"gpr", "gravity"} -> { <<XYZValid, "data">>, <<XYZMalformed, "data">> }
    [] tool = "seismic" -> { <<TracesValid, "traces">>, <<VelocityMalformed, "velocity_model">> }
    [] tool = "remoteSensing" -> { <<RSValid, "data">>, <<RSMalformed, "data">> }
    [] tool = "earthquake" -> { <<EarthquakeValid, "data">>, <<EarthquakeMalformed, "data">> }

UiInputs ==
  CASE tool = "resistivity" -> { <<"numElectrodes", <<"5">>>> }
    [] tool = "gpr" -> { }
    [] tool = "gravity" -> { <<"crustalDensity", <<"2">>>> }
    [] tool = "seismic" -> { }
    [] tool = "remoteSensing" -> { <<"numPoints", <<"1", "2">>>> }
    [] tool = "earthquake" -> { <<"minMagnitude", <<"3">>>> }

UiSeeds == {0}
UiResponses == {"text", "failed"}

Next ==
  \/ Simulate
  \/ SimulateTimeout(UiSeeds)
  \/ HandleFileUpload(UiUploads)
  \/ ReaderOnLoad
  \/ ReaderOnError
  \/ Interpret
  \/ InterpretSettled(UiResponses)
  \/ ResetApplication
  \/ SetParameter(UiInputs)
  \/ OpenExplanation
  \/ CloseExplanation

Spec == Init /\ [][Next]_vars

(***************************************************************************)
(* Ingestion: one operation at a time, over files of every shape           *)
(***************************************************************************)

sInf == sInfinity
sNegInf == <<"-">> \o sInfinity
sEmpty == << >>
sPlain == "text/plain"

\* x,y,z files: rows that parse, a blank line before a row that fails, the
\* wrong number of columns, tokens that are no decimal literal
XYZBlankThenBad ==
  Csv(<<sHeaderXYZ, sEmpty, XYZLine(<<"0">>, <<"0">>, <<"1", "0">>),
        XYZLine(<<"1">>, <<"1">>, sBad)>>)
XYZColumns == Csv(<<sHeaderXYZ, XYZLine(<<"0">>, <<"1">>, <<"1", "0">>), Row(<<<<"1">>, <<"2">>>>)>>)
XYZTwoBad == Csv(<<sHeaderXYZ, Row(<<<<"0">>, <<"1">>>>), XYZLine(<<"1">>, sBad, <<"2">>)>>)
XYZInfinite == Csv(<<sHeaderXYZ, XYZLine(<<"0">>, <<"1">>, sInf)>>)
XYZNegInfinite == Csv(<<sHeaderXYZ, XYZLine(<<"0">>, sNegInf, <<"5">>)>>)
XYZEmptyField == Csv(<<sHeaderXYZ, XYZLine(<<"0">>, sEmpty, <<"1", "0">>)>>)
XYZHeaderOnly == Csv(<<sHeaderXYZ>>)
XYZDecimals ==
  Csv(<<sHeaderXYZ, XYZLine(<<" ", "1", ".", "5">>, <<"-", "2">>, <<"+", "3", " ">>)>>)

\* x,y,z files whose first line is a row of data followed by a blank line,
\* and whose first line is one word
XYZNoHeader ==
  Csv(<<XYZLine(<<"7">>, <<"8">>, <<"9">>), sEmpty, XYZLine(<<"0">>, <<"1">>, <<"1", "0">>),
        XYZLine(<<"1">>, <<"2">>, <<"2", "0">>)>>)
XYZOddHeader == Csv(<<sBad, XYZLine(<<"3">>, <<"4">>, <<"5">>)>>)

\* The x,y,z files that are malformed: a row with the wrong number of
\* columns or a field that is not numeric
XYZMalformedFiles == {XYZMalformed, XYZBlankThenBad, XYZColumns, XYZTwoBad}
XYZFiles ==
  XYZMalformedFiles \cup {XYZValid, XYZInfinite, XYZNegInfinite, XYZEmptyField,
                          XYZHeaderOnly, XYZDecimals, XYZNoHeader, XYZOddHeader, NoFile,
                          File(sPlain, XYZValid.text)}

TracesNoTime ==
  Csv(<<Join(<<TraceKey(1), TraceKey(2)>>, sComma), Row(<<<<"1">>, <<"2">>>>)>>)
TracesColumns ==
  Csv(<<Join(<<sTime, TraceKey(1)>>, sComma), Row(<<<<"0">>, <<"1">>, <<"2">>>>)>>)
TracesInfinite ==
  Csv(<<Join(<<sTime, TraceKey(1)>>, sComma), Row(<<<<"0">>, sInf>>)>>)
VelocityValid ==
  Csv(<<Join(<<sDepth, sVelocity>>, sComma), Row(<<<<"0">>, <<"9">>>>),
        Row(<<<<"1", "0">>, <<"2", "0">>>>)>>)
VelocityNoDepth == Csv(<<Join(<<sVelocity>>, sComma), Row(<<<<"9">>>>)>>)

RSNoValue ==
  Csv(<<Join(<<sLatitude, sLongitude, sBand1, sBand2, sBand3>>, sComma),
        Row(<<<<"1">>, <<"2">>, <<"3">>, <<"4">>, <<"5">>>>)>>)
RSColumns ==
  Csv(<<Join(RSExpectedHeaders, sComma), Row(<<<<"1">>, <<"2">>, <<"3">>, <<"4">>, <<"5">>>>)>>)
RSInfinite ==
  Csv(<<Join(RSExpectedHeaders, sComma),
        Row(<<<<"1">>, <<"2">>, sInf, <<"4">>, sEmpty, sWater>>)>>)

EarthquakeBad ==
  Csv(<<Join(EarthquakeExpectedHeaders, sComma),
        Row(<<<<"1">>, <<"2">>, sBad, <<"4">>, toLocaleString(5, "sv-SE")>>)>>)
EarthquakeColumns ==
  Csv(<<Join(EarthquakeExpectedHeaders, sComma),
        Row(<<<<"1">>, <<"2">>, <<"3">>, <<"4">>, toLocaleString(5, "en-US")>>)>>)
EarthquakeInfinite ==
  Csv(<<Join(EarthquakeExpectedHeaders, sComma),
        Row(<<<<"1">>, <<"2">>, <<"3">>, sNegInf, toLocaleString(7, "sv-SE")>>)>>)

\* The files of a tool that are malformed: a row with the wrong number of
\* columns, a field that is not numeric, a required header that is missing
MalformedFiles(t) ==
  CASE t \in {"resistivity", "gpr", "gravity"} -> XYZMalformedFiles
    [] t = "seismic" -> {TracesNoTime, TracesColumns, VelocityMalformed, VelocityNoDepth}
    [] t = "remoteSensing" -> {RSMalformed, RSNoValue, RSColumns}
    [] t = "earthquake" -> {EarthquakeMalformed, EarthquakeBad, EarthquakeColumns}

IngestFiles(t) ==
  CASE t \in {"resistivity", "gpr", "gravity"} -> XYZFiles
    [] t = "seismic" -> {TracesValid, TracesNoTime, TracesColumns, TracesInfinite,
                         VelocityValid, VelocityMalformed, VelocityNoDepth}
    [] t = "remoteSensing" -> {RSValid, RSMalformed, RSNoValue, RSColumns, RSInfinite}
    [] t = "earthquake" -> {EarthquakeValid, EarthquakeMalformed, EarthquakeBad,
                            EarthquakeColumns, EarthquakeInfinite}

\* Every file offered to every file input of the mounted tool
IngestUploads == IngestFiles(tool) \X DataTypes(tool)

IngestNext ==
  \/ pending = << >> /\ Simulate
  \/ SimulateTimeout(UiSeeds)
  \/ pending = << >> /\ HandleFileUpload(IngestUploads)
  \/ ReaderOnLoad
  \/ ReaderOnError
  \/ pending = << >> /\ Interpret
  \/ InterpretSettled(UiResponses)

SpecIngest == Init /\ [][IngestNext]_vars

(***************************************************************************)
(* The interpret handler called whatever the view renders                  *)
(***************************************************************************)

HandlersNext ==
  \/ InterpretHandler
  \/ InterpretSettled(UiResponses)
  \/ pending = << >> /\ Simulate
  \/ SimulateTimeout(UiSeeds)
  \/ pending = << >> /\ HandleFileUpload(UiUploads)
  \/ ReaderOnLoad

SpecHandlers == Init /\ [][HandlersNext]_vars

(***************************************************************************)
(* Files written from the datasets of the view                             *)
(***************************************************************************)

sStation == <<"s", "t", "a", "t", "i", "o", "n">>
Column(key, name, numeric) == [key |-> key, name |-> name, numeric |-> numeric]

\* The fields of the rows of dataset f, in the order the generator writes
\* them into a row object, with the name of each and whether it is a number
ColumnsOf(f, rows) ==
  CASE f \in {"pseudosectionData", "resistivityModelData", "gprData"} ->
         <<Column("x", <<"x">>, TRUE), Column("y", <<"y">>, TRUE), Column("z", <<"z">>, TRUE)>>
    [] f \in {"observedGravityData", "freeAirAnomalyData", "bouguerAnomalyData"} ->
         <<Column("station", sStation, TRUE), Column("value", sValue, TRUE)>>
    [] f = "seismicTracesData" ->
         <<Column(sTime, sTime, TRUE)>>
         \o [i \in 1..(Cardinality(DOMAIN rows[1]) - 1) |->
               Column(TraceKey(i), TraceKey(i), TRUE)]
    [] f = "velocityModelData" ->
         <<Column(sDepth, sDepth, TRUE), Column(sVelocity, sVelocity, TRUE)>>
    [] f = "rsData" ->
         [k \in 1..Len(RSExpectedHeaders) |->
            Column(RSExpectedHeaders[k], RSExpectedHeaders[k],
                   RSExpectedHeaders[k] \in RSNumericHeaders)]
    [] f = "earthquakeData" ->
         [k \in 1..Len(EarthquakeExpectedHeaders) |->
            Column(EarthquakeExpectedHeaders[k], EarthquakeExpectedHeaders[k],
                   EarthquakeExpectedHeaders[k] \in EarthquakeNumericHeaders)]

\* A header line of the names of the fields and a line per row of the
\* fields, each written as String writes it, with commas between
WrittenLines(columns, rows) ==
  <<Row([k \in 1..Len(columns) |-> columns[k].name])>>
  \o [i \in 1..Len(rows) |->
        Row([k \in 1..Len(columns) |->
               IF columns[k].numeric THEN NumberToString(rows[i][columns[k].key])
               ELSE rows[i][columns[k].key]])]
Written(f, rows) == Csv(WrittenLines(ColumnsOf(f, rows), rows))

\* The file input a file written from dataset f goes to
DataTypeOf(f) ==
  CASE f = "pseudosectionData" -> "pseudosection"
    [] f = "resistivityModelData" -> "model"
    [] f = "seismicTracesData" -> "traces"
    [] f = "velocityModelData" -> "velocity_model"
    [] OTHER -> "data"

\* The datasets of the view that a file can be written from
Writable(d) == {f \in DOMAIN d \ {"convergenceData"} : Len(d[f]) > 0}
WrittenUploads == {<<Written(f, data[f]), DataTypeOf(f)>> : f \in Writable(data)}

RoundTripNext ==
  \/ pending = << >> /\ Simulate
  \/ SimulateTimeout(Seeds)
  \/ pending = << >> /\ HandleFileUpload(WrittenUploads)
  \/ ReaderOnLoad

SpecRoundTrip == Init /\ [][RoundTripNext]_vars

(***************************************************************************)
(* Generator runs under edited parameters                                  *)
(***************************************************************************)

\* Texts typed into the parameter inputs before a run
GenInputs ==
  CASE tool = "resistivity" ->
         { <<"numElectrodes", <<"5">>>>, <<"electrodeSpacing", <<"2">>>> }
    [] tool = "gpr" -> { <<"numTraces", <<"1", "0">>>>, <<"maxDepthOrTWTT", <<"5">>>> }
    [] tool = "gravity" -> { <<"stationSpacing", <<"1", "0">>>> }
    [] tool = "seismic" ->
         { <<"numTraces", <<"1", "0">>>>, <<"samplingInterval", <<"8">>>>,
           <<"depthOfInterface", <<"5", "5">>>> }
    [] tool = "remoteSensing" ->
         { <<"numPoints", <<"1", "2">>>>, <<"maxBandValue", <<"1", "0", "0">>>> }
    [] tool = "earthquake" ->
         { <<"numEarthquakes", <<"2">>>>, <<"minMagnitude", <<"2", ".", "0", "4">>>>,
           <<"maxMagnitude", <<"5", ".", "9", "6">>>>, <<"minDepth", <<"5", ".", "0", "4">>>> }

GenerateNext ==
  \/ SetParameter(GenInputs)
  \/ pending = << >> /\ Simulate
  \/ SimulateTimeout(Seeds)

SpecGenerate == Init /\ [][GenerateNext]_vars

(***************************************************************************)
(* Parameter edits at and below the bounds of the inputs                   *)
(***************************************************************************)

\* Texts typed into the parameter inputs: below the bound of the field,
\* not a number, and above the other end of a range
EditInputs ==
  CASE tool = "resistivity" ->
         { <<"numElectrodes", <<"3">>>>, <<"electrodeSpacing", <<"0">>>> }
    [] tool = "gpr" -> { <<"numTraces", <<"9">>>>, <<"traceSpacing", <<"0">>>> }
    [] tool = "gravity" ->
         { <<"stationSpacing", <<"0">>>>, <<"crustalDensity", <<"0", ".", "5">>>> }
    [] tool = "seismic" -> { <<"numTraces", <<"9">>>>, <<"samplingInterval", <<"0">>>> }
    [] tool = "remoteSensing" ->
         { <<"minBandValue", <<"3", "0", "0">>>>, <<"maxBandValue", <<"1">>>> }
    [] tool = "earthquake" ->
         { <<"minMagnitude", <<"7">>>>, <<"minDepth", <<"2", "0", "0">>>> }

EditsNext ==
  \/ SetParameter(EditInputs)
  \/ pending = << >> /\ Simulate
  \/ SimulateTimeout(UiSeeds)
  \/ pending = << >> /\ HandleFileUpload(UiUploads)
  \/ ReaderOnLoad
  \/ pending = << >> /\ ResetApplication

SpecEdits == Init /\ [][EditsNext]_vars

(***************************************************************************)
(* Uploads of malformed files                                              *)
(***************************************************************************)

\* The step is the start or the completion of the upload of a malformed file
MalformedUploadStep ==
  /\ lastStep'.op \in {"upload", "load"}
  /\ File("text/csv", lastStep'.text) \in MalformedFiles(tool)

\* C1, as stated: in every tool the upload of a malformed file ends with a
\* non-empty errorMessage and its steps leave every dataset as it was before
\* the upload started, so that no row of the file is stored.
C1_MalformedUploadLeavesDatasets ==
  [][MalformedUploadStep =>
       /\ data' = data
       /\ lastStep'.op = "load" => errorMessage' # NoMsg]_vars

\* C1, amended: the upload of a malformed file ends with a non-empty
\* errorMessage, the results hidden and no row of the file stored; its steps
\* leave every dataset as it was, except in the GPR tool, where they empty
\* gprData.
C1_MalformedUploadStoresNothing ==
  [][MalformedUploadStep =>
       /\ IF tool = "gpr" THEN data' = GPRNoData ELSE data' = data
       /\ lastStep'.op = "load" =>
            errorMessage' # NoMsg /\ ~showResults' /\ ~isLoading']_vars

\* A malformed file has been read over datasets that held rows, and they
\* still hold them
C1_Witness ==
  /\ lastStep.op = "load" /\ lastStep.outcome = "error"
  /\ File("text/csv", lastStep.text) \in MalformedFiles(tool)
  /\ data # NoData(tool)
  /\ errorMessage.kind \in {"columns", "nonNumeric", "missingHeaders"}

(***************************************************************************)
(* Reset and the operations in flight                                      *)
(***************************************************************************)

\* C2: when a timer, a file read or a request completes right after Reset,
\* its completion writes no dataset, showResults, interpretationText or
\* interpretationError: the view stays as Reset left it.
C2_ResetDiscardsInFlight ==
  [][lastStep.op = "reset" /\ Len(pending') < Len(pending) =>
       /\ data' = data
       /\ showResults' = showResults
       /\ interpretationText' = interpretationText
       /\ interpretationError' = interpretationError]_vars

\* C3: in every reachable state at most one asynchronous operation (a
\* simulation delay timer, a file read, an interpretation request) is in
\* flight.
C3_AtMostOneInFlight == Len(pending) <= 1

(***************************************************************************)
(* Interpretation of an empty dataset                                      *)
(***************************************************************************)

\* C4: the interpret handler called while the dataset it reads is empty (in
\* the seismic tool, while both datasets are) ends in the branch that
\* computes no statistics, with a non-empty interpretationError,
\* interpretationLoading false and no request added to those in flight.
C4_InterpretEmptyFails ==
  [][lastStep'.op = "interpret" /\ InterpretDatasetEmpty(tool, data) =>
       /\ lastStep'.outcome = "noData"
       /\ interpretationError' # NoMsg
       /\ interpretationText' = NoText
       /\ ~interpretationLoading'
       /\ pending' = pending]_vars

\* The handler has run on an empty dataset, in the seismic tool and in
\* another
C4_Witness ==
  /\ lastStep.op = "interpret"
  /\ InterpretDatasetEmpty(tool, data)
  /\ interpretationError.kind = "noData"
  /\ tool \in {"seismic", "resistivity"}

(***************************************************************************)
(* The numbers held in the datasets                                        *)
(***************************************************************************)

\* The numeric fields of a row of the mounted tool
NumericFields(row) ==
  CASE tool = "remoteSensing" -> RSNumericHeaders \cap DOMAIN row
    [] tool = "earthquake" -> EarthquakeNumericHeaders \cap DOMAIN row
    [] OTHER -> DOMAIN row

\* C5: every numeric field of every point of every dataset held in view
\* state is a finite number, whatever tokens the uploaded files held.
C5_OnlyFiniteNumbers ==
  \A f \in DOMAIN data : \A i \in 1..Len(data[f]) :
    \A k \in NumericFields(data[f][i]) : isFinite(data[f][i][k])

(***************************************************************************)
(* What a successful upload replaces                                       *)
(***************************************************************************)

\* The datasets the view holds when the file of the last step is read into
\* a view that holds none
FreshlyLoaded ==
  OnLoad(tool, lastStep.text, lastStep.dataType, NoData(tool), params,
         ReadClosure(tool, params)).data

\* C6, as stated: after a successful upload no dataset, convergence series or
\* interpretation from before the upload remains in view state: the datasets
\* are those of the file alone.
C6_UploadReplacesEverything ==
  lastStep.op = "load" /\ lastStep.outcome = "ok" =>
    /\ data = FreshlyLoaded
    /\ interpretationText = NoText
    /\ interpretationError = NoMsg

\* The dataset of a two-dataset tool that an upload of dataType leaves alone
KeptDatasets(dataType) ==
  CASE dataType = "pseudosection" -> {"resistivityModelData"}
    [] dataType = "model" -> {"pseudosectionData"}
    [] dataType = "traces" -> {"velocityModelData"}
    [] dataType = "velocity_model" -> {"seismicTracesData"}
    [] OTHER -> {}

\* The datasets the view holds when the file of the read in flight i is
\* read into a view that holds none
ReadAlone(i) ==
  OnLoad(tool, pending[i].text, pending[i].dataType, NoData(tool), params,
         pending[i].p).data

\* C6, amended: an upload clears the interpretation and hides the results
\* when it starts; when it succeeds it shows the results, writes no
\* interpretation, and leaves in every dataset the rows of the file alone
\* and the convergence series empty, except that in the two-dataset tools
\* the dataset of the other kind stays as it was.
C6_UploadReplacesItsDataset ==
  [][/\ lastStep'.op = "upload" /\ lastStep'.outcome = "reading" =>
          interpretationText' = NoText /\ interpretationError' = NoMsg /\ ~showResults'
     /\ lastStep'.op = "load" /\ lastStep'.outcome = "ok" =>
          /\ \E i \in OfKind("read") :
               /\ pending[i].text = lastStep'.text
               /\ pending[i].dataType = lastStep'.dataType
               /\ data' = [f \in DOMAIN data |->
                             IF f \in KeptDatasets(pending[i].dataType) THEN data[f]
                             ELSE ReadAlone(i)[f]]
          /\ showResults'
          /\ interpretationText' \in {interpretationText, NoText}
          /\ interpretationError' \in {interpretationError, NoMsg}]_vars

\* A model file has been read after a simulation: the simulated
\* pseudosection is still held, the convergence series is not
C6_Witness ==
  /\ lastStep.op = "load" /\ lastStep.outcome = "ok" /\ lastStep.dataType = "model"
  /\ Len(data.pseudosectionData) > Len(data.resistivityModelData)
  /\ data.convergenceData = << >>
  /\ interpretationText = NoText

(***************************************************************************)
(* The line an upload error cites                                          *)
(***************************************************************************)

\* The views whose files have the three columns of ParseXYZ
ThreeColumnTools == {"resistivity", "gpr", "gravity"}

\* The 1-indexed line of the file at which the first data row that fails
\* validation stands, the header being the first line that is not blank;
\* 0 when no row fails
FirstFailingLine(text) ==
  LET raw == Split(text, "\n")
      written == {j \in 1..Len(raw) : Trim(raw[j]) # << >>}
      failing == {j \in written :
                    /\ \E h \in written : h < j
                    /\ XYZRow(Parts(raw[j]), Numbers(Parts(raw[j])), 0, FALSE).error
                         # NoMsg}
  IN IF failing = {} THEN 0 ELSE CHOOSE j \in failing : \A k \in failing : j <= k

\* C7: in the three-column tools, when reading a file ends in a row that
\* fails validation, the message cites the line at which the first failing
\* row stands in the file, and no row of the file enters the datasets.
C7_ErrorCitesFileLine ==
  [][\A i \in OfKind("read") :
       /\ tool \in ThreeColumnTools
       /\ lastStep'.op = "load" /\ lastStep'.outcome = "error"
       /\ pending' = Remove(pending, i)
       /\ errorMessage'.kind \in {"columns", "nonNumeric"}
       => /\ errorMessage'.line = FirstFailingLine(pending[i].text)
          /\ data' \in {data, NoData(tool)}]_vars

(***************************************************************************)
(* Round trip of a generated dataset through a file                        *)
(***************************************************************************)

NegatedY(rows) == [i \in 1..Len(rows) |-> [rows[i] EXCEPT !.y = Neg(@)]]

\* C8: when the file read is the one written from a dataset a generator run
\* produces under the parameters of the view, the read succeeds and the
\* dataset of the view equals the generated one, with y negated for the
\* resistivity model.
C8_RoundTrip ==
  [][\A i \in OfKind("read") : \A seed \in Seeds :
     \A f \in DOMAIN data \ {"convergenceData"} :
       /\ lastStep'.op = "load"
       /\ pending' = Remove(pending, i)
       /\ pending[i].dataType = DataTypeOf(f)
       /\ pending[i].text = Written(f, Generated(tool, params, seed, locale)[f]).text
       => /\ lastStep'.outcome = "ok"
          /\ data'[f] = IF f = "resistivityModelData"
                        THEN NegatedY(Generated(tool, params, seed, locale)[f])
                        ELSE Generated(tool, params, seed, locale)[f]]_vars

(***************************************************************************)
(* The number of points of a generator run                                 *)
(***************************************************************************)

\* The parameters of a view that count something
Counts(t, p) ==
  CASE t = "resistivity" -> <<p.numElectrodes>>
    [] t = "gpr" -> <<p.numTraces, p.pointsPerTrace>>
    [] t = "seismic" -> <<p.numTraces>>
    [] t = "remoteSensing" -> <<p.numPoints>>
    [] t = "earthquake" -> <<p.numEarthquakes>>
    [] t = "gravity" -> << >>

Cardinalities(d) == [f \in DOMAIN d |-> Len(d[f])]

\* The sum over i in 0..N-2 of floor((N - 1 - i) / 2)
PseudosectionCount(N) == SeqSum([j \in 1..(N - 1) |-> (N - j) \div 2])

\* The numbers of points by dataset, from the counts, where one is stated
CountedCardinality(t, p) ==
  CASE t = "resistivity" ->
         [pseudosectionData |-> PseudosectionCount(Whole(p.numElectrodes)),
          resistivityModelData |-> 2 * Whole(p.numElectrodes) * 10]
    [] t = "gpr" -> [gprData |-> Whole(p.numTraces) * Whole(p.pointsPerTrace)]
    [] t = "earthquake" -> [earthquakeData |-> Whole(p.numEarthquakes)]
    [] t = "remoteSensing" -> [rsData |-> Whole(p.numPoints)]
    [] t = "gravity" ->
         [observedGravityData |-> 50, freeAirAnomalyData |-> 50, bouguerAnomalyData |-> 50]
    [] t = "seismic" -> [f \in {} |-> 0]

HasCountedCardinality ==
  \A f \in DOMAIN CountedCardinality(tool, lastStep.p) :
    Len(data[f]) = CountedCardinality(tool, lastStep.p)[f]

\* C9, as stated: after a run the datasets have the numbers of points the
\* counts give, and a run under parameters with the same counts, whatever
\* its draws, produces datasets of the same numbers of points.
C9_CardinalityFromCounts ==
  lastStep.op = "timer" =>
    /\ HasCountedCardinality
    /\ \A input \in GenInputs : \A seed \in Seeds :
         Counts(tool, SetParam(tool, lastStep.p, input[1], input[2]))
           = Counts(tool, lastStep.p)
         => Cardinalities(Generated(tool, SetParam(tool, lastStep.p, input[1], input[2]),
                                    seed, locale))
              = Cardinalities(data)

\* C9, amended: after a run the datasets have the numbers of points the
\* counts give; the seismic traces have ceil(twtMax / samplingInterval)
\* rows and the velocity model floor((depthOfInterface + 100) / 10) + 1; a
\* run under the same parameters, whatever its draws, produces datasets of
\* the same numbers of points.
C9_CardinalityFromParameters ==
  lastStep.op = "timer" =>
    /\ HasCountedCardinality
    /\ tool = "seismic" =>
         /\ (Len(data.seismicTracesData) - 1) * lastStep.p.samplingInterval
              < twtMax(lastStep.p)
         /\ twtMax(lastStep.p) <= Len(data.seismicTracesData) * lastStep.p.samplingInterval
         /\ Num(10 * (Len(data.velocityModelData) - 1))
              <= lastStep.p.depthOfInterface + Num(100)
         /\ Num(10 * Len(data.velocityModelData)) > lastStep.p.depthOfInterface + Num(100)
    /\ \A seed \in Seeds :
         Cardinalities(Generated(tool, lastStep.p, seed, locale)) = Cardinalities(data)

\* Seismic runs under the same trace count and different sampling intervals
\* or interface depths have been published
C9_Witness ==
  /\ lastStep.op = "timer" /\ tool = "seismic"
  /\ lastStep.p.numTraces = SeismicInitialParams.numTraces
  /\ lastStep.p.samplingInterval # SeismicInitialParams.samplingInterval
  /\ lastStep.p.depthOfInterface # SeismicInitialParams.depthOfInterface
  /\ Cardinalities(data) # Cardinalities(Generated(tool, SeismicInitialParams, 0, locale))

(***************************************************************************)
(* The magnitudes and depths of an earthquake run                          *)
(***************************************************************************)

\* The parameters of the run are ordered as the claim supposes
OrderedRanges(p) == p.minMagnitude <= p.maxMagnitude /\ p.minDepth <= p.maxDepth

\* C10, as stated: a run under ordered ranges publishes numEarthquakes
\* events, each of a magnitude in [minMagnitude, maxMagnitude] and a depth
\* in [minDepth, maxDepth].
C10_EventsWithinRanges ==
  lastStep.op = "timer" /\ tool = "earthquake" /\ OrderedRanges(lastStep.p) =>
    /\ Len(data.earthquakeData) = Whole(lastStep.p.numEarthquakes)
    /\ \A i \in 1..Len(data.earthquakeData) :
         /\ lastStep.p.minMagnitude <= data.earthquakeData[i][sMagnitude]
         /\ data.earthquakeData[i][sMagnitude] <= lastStep.p.maxMagnitude
         /\ lastStep.p.minDepth <= data.earthquakeData[i][sDepth]
         /\ data.earthquakeData[i][sDepth] <= lastStep.p.maxDepth

\* A value of one decimal, and the values of one decimal next to a value
OneDecimal(v) == v % (Scale \div 10) = 0
RoundedDown1(v) == (v \div (Scale \div 10)) * (Scale \div 10)
RoundedUp1(v) == -RoundedDown1(-v)

\* C10, amended: a run under ordered ranges publishes numEarthquakes events,
\* each of a magnitude of one decimal between minMagnitude rounded down and
\* maxMagnitude rounded up to one decimal, and of a depth of one decimal
\* between minDepth rounded down and maxDepth rounded up to one decimal.
C10_EventsWithinRoundedRanges ==
  lastStep.op = "timer" /\ tool = "earthquake" /\ OrderedRanges(lastStep.p) =>
    /\ Len(data.earthquakeData) = Whole(lastStep.p.numEarthquakes)
    /\ \A i \in 1..Len(data.earthquakeData) :
         /\ OneDecimal(data.earthquakeData[i][sMagnitude])
         /\ RoundedDown1(lastStep.p.minMagnitude) <= data.earthquakeData[i][sMagnitude]
         /\ data.earthquakeData[i][sMagnitude] <= RoundedUp1(lastStep.p.maxMagnitude)
         /\ OneDecimal(data.earthquakeData[i][sDepth])
         /\ RoundedDown1(lastStep.p.minDepth) <= data.earthquakeData[i][sDepth]
         /\ data.earthquakeData[i][sDepth] <= RoundedUp1(lastStep.p.maxDepth)

\* A run under ordered ranges has published an event whose magnitude is
\* below minMagnitude
C10_Witness ==
  /\ lastStep.op = "timer" /\ tool = "earthquake" /\ OrderedRanges(lastStep.p)
  /\ \E i \in 1..Len(data.earthquakeData) :
       data.earthquakeData[i][sMagnitude] < lastStep.p.minMagnitude

(***************************************************************************)
(* The planted anomaly of the spatial generators                           *)
(***************************************************************************)

SpatialDatasets == {"pseudosectionData", "resistivityModelData", "gprData"}

\* The point pt of dataset f lies in the rectangle the generator plants its
\* anomaly in, under the parameters p of the run
InAnomalyRectangle(f, p, pt) ==
  CASE f = "pseudosectionData" ->
         /\ 4 * pt.x > Whole(p.numElectrodes) * p.electrodeSpacing
         /\ 4 * pt.x < Whole(p.numElectrodes) * p.electrodeSpacing * 3
         /\ 5 * pt.y < Whole(p.numElectrodes) * p.electrodeSpacing
    [] f = "resistivityModelData" ->
         /\ 3 * pt.x > Whole(p.numElectrodes) * p.electrodeSpacing
         /\ 3 * pt.x < Whole(p.numElectrodes) * p.electrodeSpacing * 2
         /\ -pt.y > p.electrodeSpacing * 2
         /\ -pt.y < p.electrodeSpacing * 5
    [] f = "gprData" ->
         /\ 10 * pt.x > 3 * Whole(p.numTraces) * p.traceSpacing
         /\ 10 * pt.x < 7 * Whole(p.numTraces) * p.traceSpacing
         /\ 10 * pt.y > 4 * p.maxDepthOrTWTT
         /\ 10 * pt.y < 6 * p.maxDepthOrTWTT

\* The least value no background point of dataset f reaches: 80 + 40,
\* 90 + 20, and 20 + 10 + 15 + 20 + 5
BackgroundUpperBound(f) ==
  CASE f = "pseudosectionData" -> Num(120)
    [] f = "resistivityModelData" -> Num(110)
    [] f = "gprData" -> Num(70)

\* The part of a GPR value that the position of the point does not give
OverWave(pt) == pt.z - Mul(sin(pt.y * 5), Num(20)) - Mul(cos(pt.x * 2), Num(15))

\* C11, as stated: in every spatial dataset of a run a point lies in the
\* anomaly rectangle, and every point in it has a value above the upper
\* bound of the background values.
C11_AnomalyAboveBackground ==
  lastStep.op = "timer" =>
    \A f \in SpatialDatasets \cap DOMAIN data :
      /\ \E i \in 1..Len(data[f]) : InAnomalyRectangle(f, lastStep.p, data[f][i])
      /\ \A i \in 1..Len(data[f]) :
           InAnomalyRectangle(f, lastStep.p, data[f][i])
           => data[f][i].z > BackgroundUpperBound(f)

\* C11, amended: in every spatial dataset of a run a point lies in the
\* anomaly rectangle; in the resistivity datasets every point in it has a
\* value above the upper bound of the background values; in the GPR dataset
\* the value of a point exceeds its wave term sin(5y)*20 + cos(2x)*15 by
\* more than 40 exactly when the point lies in the rectangle.
C11_AnomalyAboveBackgroundTerm ==
  lastStep.op = "timer" =>
    \A f \in SpatialDatasets \cap DOMAIN data :
      /\ \E i \in 1..Len(data[f]) : InAnomalyRectangle(f, lastStep.p, data[f][i])
      /\ \A i \in 1..Len(data[f]) :
           IF f = "gprData"
           THEN InAnomalyRectangle(f, lastStep.p, data[f][i])
                <=> OverWave(data[f][i]) > Num(40)
           ELSE InAnomalyRectangle(f, lastStep.p, data[f][i])
                => data[f][i].z > BackgroundUpperBound(f)

\* A GPR run has published a point in the rectangle whose value does not
\* exceed the upper bound of the background values
C11_Witness ==
  /\ lastStep.op = "timer" /\ tool = "gpr"
  /\ \E i \in 1..Len(data.gprData) :
       /\ InAnomalyRectangle("gprData", lastStep.p, data.gprData[i])
       /\ data.gprData[i].z <= BackgroundUpperBound("gprData")

(***************************************************************************)
(* The ranges of the parameters                                            *)
(***************************************************************************)

\* The upper end of every range of the parameters p is at or above its
\* lower end
RangesOrdered(t, p) ==
  CASE t = "remoteSensing" -> p.maxBandValue >= p.minBandValue
    [] t = "earthquake" -> p.maxMagnitude >= p.minMagnitude /\ p.maxDepth >= p.minDepth
    [] OTHER -> TRUE

\* C12: the ranges of the parameters of the view are never inverted, and
\* neither are those of the parameters a generator runs under.
C12_RangesNeverInverted ==
  /\ RangesOrdered(tool, params)
  /\ lastStep.op = "timer" => RangesOrdered(tool, lastStep.p)

(***************************************************************************)
(* The minimum bounds of the parameters                                    *)
(***************************************************************************)

\* Every parameter of p that an input clamps from below is at or above the
\* bound of its input
AtOrAboveMinimums(t, p) ==
  CASE t = "resistivity" -> p.numElectrodes >= Num(4) /\ p.electrodeSpacing >= 10
    [] t = "gpr" ->
         p.numTraces >= Num(10) /\ p.traceSpacing >= 1 /\ p.maxDepthOrTWTT >= Num(1)
    [] t = "gravity" ->
         /\ p.stationSpacing >= Num(1) /\ p.crustalDensity >= Num(1)
         /\ p.anomalyCenterRatio >= 0 /\ p.anomalyWidthRatio >= 0
    [] t = "seismic" ->
         /\ p.numTraces >= Num(10) /\ p.samplingInterval >= Num(1)
         /\ p.velocity1 >= Num(100) /\ p.velocity2 >= Num(100)
         /\ p.depthOfInterface >= Num(10)
    [] t = "remoteSensing" ->
         p.numPoints >= Num(10) /\ p.minBandValue >= 0
    [] t = "earthquake" ->
         p.numEarthquakes >= Num(1) /\ p.minDepth >= 0 /\ p.maxDepth >= 0

\* C13: in every reachable state every parameter is at or above the
\* minimum bound of its input.
C13_ParametersAtOrAboveMinimums == AtOrAboveMinimums(tool, params)

(***************************************************************************)
(* Requests of the interpret button and what their responses store         *)
(***************************************************************************)

FetchCount(ops) == Cardinality({k \in 1..Len(ops) : ops[k].kind = "fetch"})

\* C14: a click on the interpret button over a non-empty dataset adds exactly
\* one request to those in flight and a response adds none; a response that
\* failed in transport or carries no candidate text leaves interpretationError
\* non-empty and interpretationText empty; a response with a text leaves
\* interpretationText equal to that text and interpretationError empty.
C14_OneRequestOneOutcome ==
  [][/\ lastStep'.op = "interpret" /\ ~InterpretDatasetEmpty(tool, data) =>
          FetchCount(pending') = FetchCount(pending) + 1
     /\ lastStep'.op = "response" =>
          /\ FetchCount(pending') = FetchCount(pending) - 1
          /\ IF lastStep'.outcome = "text"
             THEN /\ \E i \in OfKind("fetch") :
                       interpretationText' = TextFor(pending[i].prompt)
                  /\ interpretationError' = NoMsg
             ELSE /\ interpretationError' # NoMsg
                  /\ interpretationText' = NoText]_vars

(***************************************************************************)
(* The sign of y in the points the resistivity view stores                 *)
(***************************************************************************)

\* The numbers of the fields of the data lines of a file, in file order
FileNumbers(text) ==
  LET rows == slice1(Lines(text))
  IN [i \in 1..Len(rows) |-> Numbers(Parts(rows[i]))]

\* The dataset of the resistivity view that a file input fills
StoredBy(dataType) ==
  IF dataType = "model" THEN data.resistivityModelData ELSE data.pseudosectionData

\* C15: in the resistivity view a file read through the model input is stored
\* with the y of every row negated and one read through the pseudosection
\* input with y as written, x and z being stored as written by both; the
\* generator stores its model points with y negated too, at or below zero.
C15_ModelUploadNegatesY ==
  /\ tool = "resistivity" /\ lastStep.op = "load" /\ lastStep.outcome = "ok" =>
       LET n == FileNumbers(lastStep.text)
           stored == StoredBy(lastStep.dataType)
       IN /\ Len(stored) = Len(n)
          /\ \A i \in 1..Len(n) :
               /\ stored[i].x = n[i][1]
               /\ stored[i].z = n[i][3]
               /\ stored[i].y = IF lastStep.dataType = "model" THEN Neg(n[i][2])
                                ELSE n[i][2]
  /\ tool = "resistivity" /\ lastStep.op = "timer" =>
       \A i \in 1..Len(data.resistivityModelData) : data.resistivityModelData[i].y <= 0

\* A model file with a non-zero y has been stored with its sign changed
C15_Witness ==
  /\ tool = "resistivity" /\ lastStep.op = "load" /\ lastStep.outcome = "ok"
  /\ lastStep.dataType = "model"
  /\ \E i \in 1..Len(data.resistivityModelData) :
       /\ data.resistivityModelData[i].y # 0
       /\ data.resistivityModelData[i].y = -FileNumbers(lastStep.text)[i][2]

(***************************************************************************)
(* The interpret handler when the threshold selects no point               *)
(***************************************************************************)

\* C16: in the resistivity and GPR views an interpret step that selects no
\* point at or above its threshold sets the error of the missing anomaly,
\* ends with interpretationLoading false and adds no request to those in
\* flight.
C16_NoAnomalyNoRequest ==
  [][(/\ tool \in {"resistivity", "gpr"}
      /\ lastStep'.op = "interpret"
      /\ lastStep'.outcome = "noAnomaly") =>
         /\ interpretationError'.kind = "noAnomaly"
         /\ ~interpretationLoading'
         /\ interpretationText' = NoText
         /\ Len(pending') = Len(pending)]_vars

\* The threshold of the handler is a value of the dataset, so that the
\* points at or above it are never none
C16_SubsetNeverEmpty == lastStep.outcome # "noAnomaly"

(***************************************************************************)
(* Uploads rejected before the read                                        *)
(***************************************************************************)

\* C17: an upload with no file selected or with a file whose type is not
\* text/csv sets errorMessage and starts no read, and leaves the datasets,
\* showResults, isLoading and the interpretation fields as they were.
C17_RejectedUploadChangesNothing ==
  [][lastStep'.op = "upload" /\ lastStep'.outcome = "rejected" =>
       /\ errorMessage'.kind \in {"noFile", "notCsv"}
       /\ Len(pending') = Len(pending)
       /\ data' = data
       /\ showResults' = showResults
       /\ isLoading' = isLoading
       /\ interpretationLoading' = interpretationLoading
       /\ interpretationText' = interpretationText
       /\ interpretationError' = interpretationError]_vars

\* A file of another type has been refused over results and an
\* interpretation on display
C17_Witness ==
  /\ lastStep.op = "upload" /\ lastStep.outcome = "rejected"
  /\ errorMessage.kind = "notCsv"
  /\ showResults
  /\ data # NoData(tool)
  /\ interpretationText # NoText

(***************************************************************************)
(* The first line of an x,y,z file                                         *)
(***************************************************************************)

\* The lines of a text with a character that is no white space
NonBlank(text) ==
  SelectSeq(Split(text, "\n"), LAMBDA line : \E k \in 1..Len(line) : ~IsSpace(line[k]))

\* A line of three numeric fields
IsDataLine(line) ==
  /\ Len(Parts(line)) = 3
  /\ \A k \in 1..3 : ~isNaN(Number(Parts(line)[k]))

\* The first and the third number of the points a file input has filled
StoredFirstThird(dataType) ==
  CASE tool = "resistivity" ->
         [i \in 1..Len(StoredBy(dataType)) |->
            <<StoredBy(dataType)[i].x, StoredBy(dataType)[i].z>>]
    [] tool = "gpr" ->
         [i \in 1..Len(data.gprData) |-> <<data.gprData[i].x, data.gprData[i].z>>]
    [] tool = "gravity" ->
         [i \in 1..Len(data.observedGravityData) |->
            <<data.observedGravityData[i].station, data.observedGravityData[i].value>>]

\* C18: in the resistivity, GPR and gravity views a read succeeds exactly
\* when the lines after the first non-blank line are one or more rows of
\* three numbers, whatever the first line holds, and then stores one point
\* for each non-blank line but the first, in the order of the file.
C18_FirstLineSkipped ==
  tool \in ThreeColumnTools /\ lastStep.op = "load" =>
    LET lines == NonBlank(lastStep.text)
        stored == StoredFirstThird(lastStep.dataType)
    IN /\ lastStep.outcome = "ok" <=>
            /\ Len(lines) > 1
            /\ \A i \in 2..Len(lines) : IsDataLine(lines[i])
       /\ lastStep.outcome = "ok" =>
            /\ Len(stored) = Len(lines) - 1
            /\ \A i \in 1..Len(stored) :
                 stored[i] = <<Number(Parts(lines[i + 1])[1]), Number(Parts(lines[i + 1])[3])>>

\* A file whose first line is a row of three numbers has been stored
\* without that row
C18_Witness ==
  /\ tool \in ThreeColumnTools /\ lastStep.op = "load" /\ lastStep.outcome = "ok"
  /\ IsDataLine(NonBlank(lastStep.text)[1])
  /\ Len(StoredFirstThird(lastStep.dataType)) = 2
  /\ StoredFirstThird(lastStep.dataType)[1] = <<0, Num(10)>>

(***************************************************************************)
(* Files without a row of data                                             *)
(***************************************************************************)

EmptyFile == Csv(<< >>)
TracesHeaderOnly == Csv(<<Join(<<sTime, TraceKey(1)>>, sComma)>>)
VelocityHeaderOnly == Csv(<<Join(<<sDepth, sVelocity>>, sComma)>>)
RSHeaderOnly == Csv(<<Join(RSExpectedHeaders, sComma)>>)
EarthquakeHeaderOnly == Csv(<<Join(EarthquakeExpectedHeaders, sComma)>>)

\* The files of a tool with no line or with the header line alone
RowlessFiles(t) ==
  CASE t \in ThreeColumnTools -> {EmptyFile, XYZHeaderOnly}
    [] t = "seismic" -> {EmptyFile, TracesHeaderOnly, VelocityHeaderOnly}
    [] t = "remoteSensing" -> {EmptyFile, RSHeaderOnly}
    [] t = "earthquake" -> {EmptyFile, EarthquakeHeaderOnly}

RowlessUploads == RowlessFiles(tool) \X DataTypes(tool)

\* The file inputs offered files without rows, beside the simulate button
RowlessNext ==
  \/ Simulate
  \/ SimulateTimeout(UiSeeds)
  \/ HandleFileUpload(RowlessUploads)
  \/ ReaderOnLoad

SpecRowless == Init /\ [][RowlessNext]_vars

\* C19: the read of a file with no line or with the header line alone ends
\* with errorMessage set, showResults false and isLoading false, and leaves
\* the datasets as they were, in every tool.
C19_RowlessUploadFails ==
  [][\A i \in OfKind("read") :
       (/\ Len(NonBlank(pending[i].text)) <= 1
        /\ lastStep'.op = "load"
        /\ lastStep'.text = pending[i].text
        /\ Len(pending') < Len(pending)) =>
         /\ errorMessage' # NoMsg
         /\ ~showResults'
         /\ ~isLoading'
         /\ data' = data]_vars

(***************************************************************************)
(* The state the reset button leaves                                       *)
(***************************************************************************)

\* The reset button beside every other control of the view, the other
\* operations one at a time
ResetNext ==
  \/ SetParameter(UiInputs)
  \/ pending = << >> /\ Simulate
  \/ SimulateTimeout(UiSeeds)
  \/ pending = << >> /\ HandleFileUpload(UiUploads)
  \/ ReaderOnLoad
  \/ pending = << >> /\ Interpret
  \/ InterpretSettled(UiResponses)
  \/ OpenExplanation
  \/ CloseExplanation
  \/ ResetApplication

SpecReset == Init /\ [][ResetNext]_vars

\* C20: a click on the reset button leaves every parameter, every dataset,
\* isLoading, errorMessage, showResults, the interpretation loading, text
\* and error, and showExplanation at the value they have after the mount,
\* whatever the state it is clicked in.
C20_ResetRestoresInitialState ==
  [][lastStep'.op = "reset" =>
       /\ params' = InitialParams(tool)
       /\ data' = NoData(tool)
       /\ ~isLoading'
       /\ errorMessage' = NoMsg
       /\ ~showResults'
       /\ ~interpretationLoading'
       /\ interpretationText' = NoText
       /\ interpretationError' = NoMsg
       /\ ~showExplanation']_vars

\* The reset button has been clicked while an operation started from edited
\* parameters was in flight
C20_Witness ==
  /\ lastStep.op = "reset"
  /\ params = InitialParams(tool)
  /\ \E i \in 1..Len(pending) :
       pending[i].kind = "timer" /\ pending[i].p # InitialParams(tool)

(***************************************************************************)
(* The effect that clears the interpretation                               *)
(***************************************************************************)

\* C21: in the gravity, seismic, remote sensing and earthquake views every
\* step that changes a parameter or a dataset leaves interpretationText and
\* interpretationError empty.
C21_ChangeClearsInterpretation ==
  [][(tool \in EffectTools /\ (params' # params \/ data' # data)) =>
       (/\ interpretationText' = NoText
        /\ interpretationError' = NoMsg)]_vars

\* A parameter has been edited under displayed results with no operation
\* in flight
C21_Witness ==
  /\ tool \in EffectTools
  /\ lastStep.op = "edit"
  /\ lastStep.p # InitialParams(tool)
  /\ showResults
  /\ ~interpretationLoading
  /\ pending = << >>
  /\ interpretationText = NoText /\ interpretationError = NoMsg

(***************************************************************************)
(* The interpretation on display and the dataset on display                *)
(***************************************************************************)

\* The texts of the responses to the requests the interpret handler would
\* send over the datasets d
TextsOver(d) ==
  {TextFor(r.prompt) : r \in {q \in PromptsOf(tool, d) : q.outcome = "request"}}

\* C22: an interpretationText shown with the results is the response to a
\* prompt computed from the datasets the view holds: the interpretation of a
\* dataset that was replaced is never shown beside the one that replaced it.
C22_InterpretationOfCurrentData ==
  showResults /\ interpretationText # NoText => interpretationText \in TextsOver(data)

(***************************************************************************)
(* The interpretation text and the interpretation error                    *)
(***************************************************************************)

\* C23: in every reachable state interpretationText or interpretationError
\* is empty.
C23_TextAndErrorExclusive ==
  interpretationText = NoText \/ interpretationError = NoMsg

(***************************************************************************)
(* isLoading, showResults and the operations in flight                     *)
(***************************************************************************)

\* The simulate button, the file inputs and the reset button with their
\* timers and reads overlapping
LoadingNext ==
  \/ Simulate
  \/ SimulateTimeout(UiSeeds)
  \/ HandleFileUpload(UiUploads)
  \/ ReaderOnLoad
  \/ ReaderOnError
  \/ ResetApplication

SpecLoading == Init /\ [][LoadingNext]_vars

\* C24: while a simulation timer or a file read is in flight isLoading is
\* true, so that isLoading is false only when none remains.
C24_LoadingWhilePending ==
  OfKind("timer") \cup OfKind("read") # {} => isLoading

\* C25: isLoading and showResults are never both true.
C25_LoadingExcludesResults == ~(isLoading /\ showResults)

\* Results are shown, and nothing loading, while a file read is in flight
C25_Witness ==
  /\ showResults /\ ~isLoading
  /\ OfKind("read") # {}
  /\ lastStep.op \in {"timer", "load"}

(***************************************************************************)
(* Completion of simulations and uploads                                   *)
(***************************************************************************)

\* The simulate button and the file inputs, offered files of every outcome,
\* one operation at a time
CompletionNext ==
  \/ pending = << >> /\ Simulate
  \/ SimulateTimeout(UiSeeds)
  \/ pending = << >> /\ HandleFileUpload(UiUploads \cup RowlessUploads)
  \/ ReaderOnLoad
  \/ ReaderOnError

\* The steps of SimulateTimeout, told by the timer they take from pending
TimerFires ==
  \E i \in OfKind("timer") :
    /\ \A j \in OfKind("timer") : i <= j
    /\ pending' = Remove(pending, i)

\* The steps of ReaderOnLoad and ReaderOnError, told by the read they take
\* from pending
ReadEnds == \E i \in OfKind("read") : pending' = Remove(pending, i)

\* A timer that was set fires, and a read that was started ends in onload or
\* in onerror
SpecCompletion ==
  /\ Init
  /\ [][CompletionNext]_vars
  /\ WF_pending(TimerFires)
  /\ WF_pending(ReadEnds)

\* C26: when the timers fire and the reads end, every simulate click and
\* every accepted upload, which set isLoading, is followed by a state in
\* which isLoading is false.
C26_LoadingEnds == isLoading ~> ~isLoading

\* The read of a file without rows has ended and nothing is loading
C26_Witness ==
  /\ lastStep.op = "load" /\ lastStep.outcome = "empty"
  /\ ~isLoading
  /\ pending = << >>

(***************************************************************************)
(* Completion of interpretations                                           *)
(***************************************************************************)

\* The interpret handler over every dataset, the empty one included, and the
\* responses of every kind, one operation at a time
InterpretationNext ==
  \/ pending = << >> /\ Simulate
  \/ SimulateTimeout(UiSeeds)
  \/ pending = << >> /\ HandleFileUpload(UiUploads)
  \/ ReaderOnLoad
  \/ pending = << >> /\ InterpretHandler
  \/ InterpretSettled(Responses)

\* The steps of InterpretSettled, told by the request they take from pending
FetchSettles == \E i \in OfKind("fetch") : pending' = Remove(pending, i)

\* A request that was sent is answered or fails
SpecInterpretation ==
  /\ Init
  /\ [][InterpretationNext]_vars
  /\ WF_pending(FetchSettles)

\* C27: when the requests settle, every call of the interpret handler, which
\* sets interpretationLoading, is followed by a state in which
\* interpretationLoading is false, and a call that sends no request ends
\* with it false.
C27_InterpretationLoadingEnds ==
  /\ interpretationLoading ~> ~interpretationLoading
  /\ [](lastStep.op = "interpret" /\ lastStep.outcome # "request" =>
          ~interpretationLoading)

\* A response without a candidate text has ended the loading
C27_Witness ==
  /\ lastStep.op = "response" /\ lastStep.outcome = "malformed"
  /\ ~interpretationLoading
  /\ interpretationError # NoMsg

(***************************************************************************)
(* The subset the interpret handler selects                                *)
(***************************************************************************)

MaxPoints == 6

\* The z values written in the files
AnomalyValues == {<<"1">>, <<"2">>}

\* The file of the rows i,0,zs[i]
AnomalyFile(zs) ==
  Csv(<<sHeaderXYZ>> \o [i \in 1..Len(zs) |-> XYZLine(NatToString(i), <<"0">>, zs[i])])

\* Files of one to MaxPoints rows with every choice of z values, offered to
\* the input that fills the dataset the handler reads
AnomalyUploads ==
  IF tool \in {"resistivity", "gpr"}
  THEN {<<AnomalyFile(zs), IF tool = "resistivity" THEN "model" ELSE "data">> :
          zs \in UNION {[1..n -> AnomalyValues] : n \in 1..MaxPoints}}
  ELSE UiUploads

AnomalyNext ==
  \/ pending = << >> /\ HandleFileUpload(AnomalyUploads)
  \/ ReaderOnLoad
  \/ pending = << >> /\ Interpret
  \/ InterpretSettled(UiResponses)

SpecAnomaly == Init /\ [][AnomalyNext]_vars

\* The dataset the handler of the resistivity or GPR view reads
InterpretedPoints ==
  IF tool = "resistivity" THEN data.resistivityModelData ELSE data.gprData

\* C28: in the resistivity and GPR views the interpret handler over a
\* non-empty dataset of finite values selects at least one point and sends
\* its request, never ending in the branch of the missing anomaly; when all
\* the values are equal no point is left for the background and the
\* background mean of the prompt is the minimum value.
C28_AnomalySubsetNonEmpty ==
  (/\ tool \in {"resistivity", "gpr"}
   /\ lastStep.op = "interpret"
   /\ InterpretedPoints # << >>) =>
     LET zs == [i \in 1..Len(InterpretedPoints) |-> InterpretedPoints[i].z]
         sent == pending[Len(pending)]
     IN /\ lastStep.outcome = "request"
        /\ sent.kind = "fetch"
        /\ (\A i \in 1..Len(zs) : zs[i] = zs[1]) => sent.prompt[6] = Fixed1(zs[1])

\* A request has been sent over several points of one value
C28_Witness ==
  /\ tool \in {"resistivity", "gpr"}
  /\ lastStep.op = "interpret" /\ lastStep.outcome = "request"
  /\ Len(InterpretedPoints) > 1
  /\ \A i \in 1..Len(InterpretedPoints) : InterpretedPoints[i].z = InterpretedPoints[1].z
  /\ pending[Len(pending)].prompt[6] = Fixed1(InterpretedPoints[1].z)

(***************************************************************************)
(* The parameters across simulations and uploads                           *)
(***************************************************************************)

\* C29: the simulate click, the upload and their callbacks leave every
\* parameter at the value it had before the step.
C29_ParametersUntouched ==
  [][lastStep'.op \in {"simulate", "timer", "upload", "load", "readError"} =>
       params' = params]_vars

(***************************************************************************)
(* The three series of the gravity view                                    *)
(***************************************************************************)

SameStations(a, b) ==
  /\ Len(a) = Len(b)
  /\ \A k \in 1..Len(a) : a[k].station = b[k].station

\* C30: in the gravity view the observed-gravity, free-air and Bouguer series
\* have the same length and the same stations in the same order, in every
\* state the view reaches through Simulate, uploads (failed ones included)
\* and Reset.
C30_GravitySeriesAligned ==
  tool = "gravity" =>
    /\ SameStations(data.observedGravityData, data.freeAirAnomalyData)
    /\ SameStations(data.observedGravityData, data.bouguerAnomalyData)

\* A file has been read into the three series.
C30_Witness ==
  /\ tool = "gravity"
  /\ lastStep.op = "load"
  /\ lastStep.outcome = "ok"
  /\ Len(data.bouguerAnomalyData) \in 1..(numStations - 1)
  /\ showResults

====
